---- MODULE Spec2Model ----
(***************************************************************************)
(* TV-programme scheduling (fisnikhz/AA_25-26): the instance model, the    *)
(* constraint validator, the scoring helpers and the search strategies     *)
(* GreedyScheduler, GreedyLookahead, BeamSearchScheduler,                  *)
(* BeamSearchSchedulerAdvanced and BeyondDynamicBeamSearchSchedulerAdvanced *)
(* as state machines.                                                      *)
(*                                                                         *)
(* Naming.  The repository snapshot mixes two spellings of the same        *)
(* fields and keywords (Schedule.start / start_time, end / end_time,       *)
(* Solution.scheduled_programs / schedule_plan).  They are one field here: *)
(* start, end, scheduled_programs.  Program.unique_id is the identity the  *)
(* loader gives every program; here it is 10 * channel index + position.   *)
(* Scores are integers; the float accumulators of the beam searches hold   *)
(* integral values only, so int() is exact on them.                        *)
(***************************************************************************)
EXTENDS Integers, Sequences, FiniteSets, TLC

VARIABLES
    inst,            \* InstanceData: read-only input of every strategy
    alg,             \* which strategy object runs
    pc,              \* position inside generate_solution
    time,            \* Greedy / GreedyLookahead: local `time`
    solution,        \* Greedy / GreedyLookahead: local `solution`
    total_score,     \* Greedy / GreedyLookahead: local `total_score`
    bs,              \* BeamSearchScheduler(Advanced): the clamped constructor parameters
    beam,            \* _beam_search: the list `beam`
    best_state,      \* _beam_search: best_score, best_solution
    bt_nodes,        \* _backtrack_improve: the list `nodes`
    bt_depth,        \* _backtrack_improve: passes of the depth loop still to run
    adv,             \* BeamSearchSchedulerAdvanced.generate_solution: its locals
    dyn,             \* BeyondDynamicBeamSearchSchedulerAdvanced: fields and locals
    result           \* the returned Solution (or the raised flag)

vars == <<inst, alg, pc, time, solution, total_score, bs, beam, best_state,
          bt_nodes, bt_depth, adv, dyn, result>>

\* ------------------------------------------------------------------ bounds
MaxT == 3
MaxScore == 2
MaxDev == 2
WideT == 4

\* ------------------------------------------------------------ small helpers
Max2(a, b) == IF a >= b THEN a ELSE b
Min2(a, b) == IF a <= b THEN a ELSE b
Last(s) == s[Len(s)]

\* --------------------------------------------------------------- data model
\* Utils.get_channel_program_by_time returns None when nothing airs.
NoProgram == [program_id |-> 0, unique_id |-> 0, start |-> 0 - 1, end |-> 0 - 1,
              genre |-> "none", score |-> 0]

\* returned by get_best_fit when no candidate beats max_score = 0
NoChannel == [channel_id |-> 0, programs |-> <<>>]

Schedule(channel_id, program_id, start, end, fitness, unique_program_id) ==
    [channel_id |-> channel_id, program_id |-> program_id, start |-> start,
     end |-> end, fitness |-> fitness, unique_program_id |-> unique_program_id]

Solution(scheduled_programs, score) ==
    [scheduled_programs |-> scheduled_programs, total_score |-> score,
     raised |-> FALSE]

NoResult == [scheduled_programs |-> <<>>, total_score |-> 0, raised |-> FALSE]

\* ------------------------------------------------------------------- Utils
RECURSIVE FirstAiring(_, _, _)
FirstAiring(programs, t, i) ==
    IF i > Len(programs) THEN NoProgram
    ELSE IF programs[i].start <= t /\ t < programs[i].end THEN programs[i]
    ELSE FirstAiring(programs, t, i + 1)

get_channel_program_by_time(channel, t) == FirstAiring(channel.programs, t, 1)

AllPrograms(I) ==
    UNION { { I.channels[c].programs[k] : k \in 1..Len(I.channels[c].programs) }
            : c \in 1..Len(I.channels) }

get_program_by_unique_id(I, unique_id) ==
    IF \E p \in AllPrograms(I) : p.unique_id = unique_id
    THEN CHOOSE p \in AllPrograms(I) : p.unique_id = unique_id
    ELSE NoProgram

\* --------------------------------------------------------------- Validator
\* validate_schedule_time without the test of t + min_duration
validate_schedule_time_NoDwellTest(I, t) ==
    ~ (t < I.opening_time \/ t > I.closing_time)

validate_schedule_time(I, t) ==
    ~ (t < I.opening_time \/ t > I.closing_time
       \/ t + I.min_duration > I.closing_time)

\* validate_min_duration that never raises
validate_min_duration_NoFloor(schedule_plan, I, t) == TRUE

validate_min_duration(schedule_plan, I, t) ==
    IF schedule_plan = <<>> THEN TRUE
    ELSE ~ (t < Last(schedule_plan).start + I.min_duration)

\* count of the trailing entries whose programme has the genre g
RECURSIVE GenreRun(_, _, _, _)
GenreRun(schedule_plan, I, g, i) ==
    IF i = 0 THEN 0
    ELSE IF get_program_by_unique_id(I, schedule_plan[i].unique_program_id).genre # g
         THEN 0
         ELSE 1 + GenreRun(schedule_plan, I, g, i - 1)

\* validate_max_consecutive_genre with `count + 1 > max_consecutive_genre`
validate_max_consecutive_genre_Exclusive(schedule_plan, I, channel_index, t) ==
    IF schedule_plan = <<>> THEN TRUE
    ELSE LET program == get_channel_program_by_time(I.channels[channel_index], t)
         IN  IF program = NoProgram THEN TRUE
             ELSE ~ (GenreRun(schedule_plan, I, program.genre, Len(schedule_plan)) + 1
                       > I.max_consecutive_genre)

validate_max_consecutive_genre(schedule_plan, I, channel_index, t) ==
    IF schedule_plan = <<>> THEN TRUE
    ELSE LET program == get_channel_program_by_time(I.channels[channel_index], t)
         IN  IF program = NoProgram THEN TRUE
             ELSE ~ (GenreRun(schedule_plan, I, program.genre, Len(schedule_plan)) + 1
                       >= I.max_consecutive_genre)

\* validate_priority_time_block that looks only at the blocks containing t
validate_priority_time_block_ContainingOnly(I, channel_index, t) ==
    LET id == I.channels[channel_index].channel_id
    IN  \A b \in 1..Len(I.priority_blocks) :
          LET block == I.priority_blocks[b]
          IN  ~ ( (block.start <= t /\ t < block.end)
                  /\ id \notin block.allowed_channels )

validate_priority_time_block(I, channel_index, t) ==
    LET id == I.channels[channel_index].channel_id
    IN  \A b \in 1..Len(I.priority_blocks) :
          LET block == I.priority_blocks[b]
          IN  ~ ( ( (block.start <= t /\ t < block.end)
                    \/ (t < block.start /\ block.start < t + I.min_duration) )
                  /\ id \notin block.allowed_channels )

is_channel_valid(schedule_plan, I, channel_index, t) ==
    /\ validate_schedule_time(I, t)
    /\ validate_min_duration(schedule_plan, I, t)
    /\ validate_max_consecutive_genre(schedule_plan, I, channel_index, t)
    /\ validate_priority_time_block(I, channel_index, t)

\* ---------------------------------------------------------- SchedulerUtils
\* the valid channel indexes, in channel order
get_valid_schedules(schedule_plan, I, t) ==
    SelectSeq([c \in 1..Len(I.channels) |-> c],
              LAMBDA c : is_channel_valid(schedule_plan, I, c, t))

\* ---------------------------------------------------------- AlgorithmUtils
RECURSIVE SumBonus(_, _, _)
SumBonus(I, program, k) ==
    IF k = 0 THEN 0
    ELSE LET preference == I.time_preferences[k]
         IN  SumBonus(I, program, k - 1)
             + (IF program.genre = preference.preferred_genre
                   /\ program.start < preference.end
                   /\ program.end > preference.start
                THEN preference.bonus ELSE 0)

get_time_preference_bonus(I, program, t) ==
    SumBonus(I, program, Len(I.time_preferences))

\* get_switch_penalty that charges nothing for a change of channel
get_switch_penalty_None(scheduled_programs, I, channel) == 0 * I.switch_penalty

get_switch_penalty(scheduled_programs, I, channel) ==
    IF scheduled_programs = <<>> THEN 0
    ELSE IF Last(scheduled_programs).channel_id # channel.channel_id
         THEN 0 - I.switch_penalty ELSE 0

\* a get_delay_penalty that charges a programme joined after its start
get_delay_penalty_Late(scheduled_programs, I, program, t) ==
    IF t > program.start THEN 0 - 1 ELSE 0

get_delay_penalty(scheduled_programs, I, program, t) == 0

get_early_termination_penalty(scheduled_programs, I, program, t) ==
    IF scheduled_programs = <<>> THEN 0
    ELSE IF Last(scheduled_programs).unique_program_id # program.unique_id
            /\ program.start < Last(scheduled_programs).end
         THEN 0 - I.termination_penalty ELSE 0

\* the per-candidate score of get_best_fit
FitScore(scheduled_programs, I, channel, program, t) ==
    program.score
    + get_time_preference_bonus(I, program, t)
    + get_switch_penalty(scheduled_programs, I, channel)
    + get_delay_penalty(scheduled_programs, I, program, t)
    + get_early_termination_penalty(scheduled_programs, I, program, t)

\* the loop of get_best_fit: best = <<channel, program, max_score>>
RECURSIVE BestFitLoop(_, _, _, _, _, _)
BestFitLoop(scheduled_programs, I, t, valid, i, best) ==
    IF i > Len(valid) THEN best
    ELSE LET channel == I.channels[valid[i]]
             program == get_channel_program_by_time(channel, t)
             score   == FitScore(scheduled_programs, I, channel, program, t)
         IN  IF program = NoProgram
             THEN BestFitLoop(scheduled_programs, I, t, valid, i + 1, best)
             ELSE IF score > best[3]
                  THEN BestFitLoop(scheduled_programs, I, t, valid, i + 1,
                                   <<channel, program, score>>)
                  ELSE BestFitLoop(scheduled_programs, I, t, valid, i + 1, best)

get_best_fit(scheduled_programs, I, t, valid_channel_indexes) ==
    BestFitLoop(scheduled_programs, I, t, valid_channel_indexes, 1,
                <<NoChannel, NoProgram, 0>>)

\* ------------------------------------------------------------- the inputs
\* Structurally sound instances on the minute grid 0..MaxT.  Two channels,
\* at most two programmes each, in broadcast order and non-overlapping,
\* start < end.  The plain instance has window [0, MaxT), min_duration 1,
\* max_consecutive_genre 3, no penalties, no blocks, no preferences, and
\* every programme is "news" with score 1; an instance departs from the
\* plain one in at most MaxDev places (a programme's genre or score, one
\* parameter, a priority block, a time preference).
Times == 0..MaxT
IntervalsOf(T) == { iv \in (0..T) \X (0..T) : iv[1] < iv[2] }
Intervals == IntervalsOf(MaxT)

\* the programme intervals of one channel on the grid 0..T
LineupsOf(T) ==
    {<<>>} \cup { <<a>> : a \in IntervalsOf(T) }
    \cup { ab \in { <<a, b>> : a \in IntervalsOf(T), b \in IntervalsOf(T) } :
             ab[1][2] <= ab[2][1] }

Lineups == LineupsOf(MaxT)

Dev(kind, k, v) == [kind |-> kind, k |-> k, v |-> v]

Devs ==
    { Dev("genre", k, 0) : k \in 1..4 }
    \cup { Dev("score", kv[1], kv[2]) : kv \in (1..4) \X (2..MaxScore) }
    \cup { Dev("opening_time", 0, 1), Dev("closing_time", 0, MaxT - 1),
           Dev("min_duration", 0, 2), Dev("max_consecutive_genre", 0, 1),
           Dev("max_consecutive_genre", 0, 2), Dev("switch_penalty", 0, 1),
           Dev("termination_penalty", 0, 1) }
    \cup { Dev("priority_block", sc[1], sc[2]) : sc \in (0..(MaxT - 1)) \X {1, 2} }
    \cup { Dev("time_preference", s, 1) : s \in 0..(MaxT - 1) }

RECURSIVE DevSets(_)
DevSets(n) ==
    IF n = 0 THEN {{}}
    ELSE LET smaller == DevSets(n - 1)
         IN  smaller \cup
             { da[1] \cup {da[2]} : da \in
                 { x \in smaller \X Devs :
                     \A d \in x[1] :
                        d.kind # x[2].kind
                        \/ (d.kind \in {"genre", "score"} /\ d.k # x[2].k) } }

Has(devs, kind, k) == \E d \in devs : d.kind = kind /\ d.k = k
Val(devs, kind, k, default) ==
    IF Has(devs, kind, k)
    THEN (CHOOSE d \in devs : d.kind = kind /\ d.k = k).v
    ELSE default

MkProgram(iv, devs, slot, uid) ==
    [program_id |-> uid, unique_id |-> uid, start |-> iv[1], end |-> iv[2],
     genre |-> IF Has(devs, "genre", slot) THEN "film" ELSE "news",
     score |-> Val(devs, "score", slot, 1)]

MkChannel(index, lineup, devs) ==
    [channel_id |-> index,
     programs |-> [k \in 1..Len(lineup) |->
                     MkProgram(lineup[k], devs, 2 * (index - 1) + k, 10 * index + k)]]

InstanceData(o, e, d, mcg, sp, tp, priority_blocks, time_preferences, channels) ==
    [opening_time |-> o, closing_time |-> e, min_duration |-> d,
     max_consecutive_genre |-> mcg, switch_penalty |-> sp,
     termination_penalty |-> tp, priority_blocks |-> priority_blocks,
     time_preferences |-> time_preferences, channels |-> channels]

MkInstance(lineup1, lineup2, devs) ==
    InstanceData(
        Val(devs, "opening_time", 0, 0),
        Val(devs, "closing_time", 0, MaxT),
        Val(devs, "min_duration", 0, 1),
        Val(devs, "max_consecutive_genre", 0, 3),
        Val(devs, "switch_penalty", 0, 0),
        Val(devs, "termination_penalty", 0, 0),
        IF \E d \in devs : d.kind = "priority_block"
        THEN LET d == CHOOSE x \in devs : x.kind = "priority_block"
             IN  << [start |-> d.k, end |-> d.k + 1, allowed_channels |-> {d.v}] >>
        ELSE <<>>,
        IF \E d \in devs : d.kind = "time_preference"
        THEN LET d == CHOOSE x \in devs : x.kind = "time_preference"
             IN  << [start |-> d.k, end |-> d.k + 1, preferred_genre |-> "news",
                     bonus |-> d.v] >>
        ELSE <<>>,
        << MkChannel(1, lineup1, devs), MkChannel(2, lineup2, devs) >>)

InstancesOf(n) ==
    { MkInstance(x[1], x[2], x[3]) : x \in Lineups \X Lineups \X DevSets(n) }

\* the boundary scenario: one channel, A (0-30) then B (30-60), both news
Scenario ==
    InstanceData(0, 60, 10, 2, 0, 0, <<>>, <<>>,
        << [channel_id |-> 1,
            programs |-> << [program_id |-> 11, unique_id |-> 11, start |-> 0,
                             end |-> 30, genre |-> "news", score |-> 10],
                            [program_id |-> 12, unique_id |-> 12, start |-> 30,
                             end |-> 60, genre |-> "news", score |-> 10] >>] >>)

\* a window of WideT minutes with min_duration 2: long enough for two
\* entries that each respect the dwell time
WideInstances ==
    { InstanceData(0, WideT, 2, 3, 0, 0, <<>>, <<>>,
                   << MkChannel(1, x[1], {}), MkChannel(2, x[2], {}) >>) :
        x \in LineupsOf(WideT) \X LineupsOf(WideT) }

Instances == InstancesOf(MaxDev) \cup {Scenario}
SmallInstances == InstancesOf(MaxDev - 1)
TinyInstances == InstancesOf(0)

\* no programme of any channel meets the window [opening_time, closing_time)
EmptyWindow(I) ==
    \A p \in AllPrograms(I) : p.end <= I.opening_time \/ p.start >= I.closing_time

ZeroChannels == InstanceData(0, MaxT, 1, 3, 0, 0, <<>>, <<>>, <<>>)

EmptyInstances == { I \in InstancesOf(MaxDev) : EmptyWindow(I) } \cup {ZeroChannels}

\* ------------------------------------------------------ BeamSearchScheduler
\* float('-inf'): below every score a schedule can have
NegInf == 0 - 2000000000

\* sorted(set): ascending, without duplicates
RECURSIVE SortedSeq(_)
SortedSeq(S) ==
    IF S = {} THEN <<>>
    ELSE LET m == CHOOSE x \in S : \A y \in S : x <= y
         IN  <<m>> \o SortedSeq(S \ {m})

\* a constructor that stores its arguments as they come
BeamSearchScheduler_Unclamped(beam_width, jump_cap, backtrack_window) ==
    [beam_width |-> beam_width, jump_cap |-> jump_cap, backtrack_window |-> backtrack_window]

\* BeamSearchScheduler.__init__: the clamped parameters
BeamSearchScheduler(beam_width, jump_cap, backtrack_window) ==
    [beam_width |-> Max2(1, beam_width), jump_cap |-> Max2(1, jump_cap),
     backtrack_window |-> Max2(0, backtrack_window)]

\* _build_interesting_times, as the set behind the sorted list
InterestingSet(I) ==
    { t \in UNION { {p.start, p.end} : p \in AllPrograms(I) }
            \cup UNION { {I.priority_blocks[b].start, I.priority_blocks[b].end}
                         : b \in 1..Len(I.priority_blocks) }
            \cup UNION { {I.time_preferences[k].start, I.time_preferences[k].end}
                         : k \in 1..Len(I.time_preferences) }
        : I.opening_time <= t /\ t <= I.closing_time }

build_interesting_times(I) == SortedSeq(InterestingSet(I))

\* a skip table whose every entry is zero
SkipEntry_Zero(I, jump_cap, m) == Min2(jump_cap, 0)

\* a skip table that looks only at jump_cap and the closing time
SkipEntry_CapOnly(I, jump_cap, m) == Min2(jump_cap, I.closing_time - m)

\* _build_skip_table: skip[m] for one minute m of range(opening, closing)
SkipEntry(I, jump_cap, m) ==
    LET later == { t \in InterestingSet(I) : t > m }
    IN  IF later = {} THEN Min2(jump_cap, I.closing_time - m)
        ELSE LET next_t == CHOOSE x \in later : \A y \in later : x <= y
                 delta  == next_t - m
             IN  IF delta <= jump_cap THEN delta ELSE jump_cap

build_skip_table(I, jump_cap) ==
    [m \in I.opening_time..(I.closing_time - 1) |-> SkipEntry(I, jump_cap, m)]

\* self.skip_table.get(current_time, self.jump_cap)
SkipGet(I, self, t) ==
    IF t \in DOMAIN build_skip_table(I, self.jump_cap)
    THEN build_skip_table(I, self.jump_cap)[t] ELSE self.jump_cap

SEG_CAP == 4

\* interesting_times[idx : idx + 6] with idx = bisect_left(arr, x)
BisectWindow(arr, x) ==
    LET idx == Cardinality({ j \in 1..Len(arr) : arr[j] < x })
    IN  { arr[j] : j \in { j \in 1..Len(arr) : idx < j /\ j <= idx + 6 } }

\* the list `chosen` of _segment_options, before the SEG_CAP cut
SegChosen(ends_list, full_end, min_ok_end) ==
    LET InList(e) == \E j \in 1..Len(ends_list) : ends_list[j] = e
        c1 == IF InList(full_end) THEN <<full_end>> ELSE <<>>
        c2 == IF Len(ends_list) > 0 /\ ends_list[1] # full_end
              THEN Append(c1, ends_list[1]) ELSE c1
        c3 == IF Len(ends_list) >= 3
              THEN Append(c2, ends_list[(Len(ends_list) \div 2) + 1]) ELSE c2
        In3(e) == \E j \in 1..Len(c3) : c3[j] = e
    IN  IF ~ In3(min_ok_end) /\ InList(min_ok_end)
        THEN Append(c3, min_ok_end) ELSE c3

\* chosen[:self.SEG_CAP]
SegCap(chosen) == SubSeq(chosen, 1, Min2(SEG_CAP, Len(chosen)))

\* [(seg_start, e) for e in ...]
SegPairs(seg_start, kept) == [j \in 1..Len(kept) |-> <<seg_start, kept[j]>>]

\* _segment_options without the closing `if e - seg_start >= D` filter
segment_options_NoDwellFilter(I, current_time, prog) ==
    LET O == I.opening_time
        E == I.closing_time
        D == I.min_duration
        seg_start == Max2(Max2(current_time, prog.start), O)
        full_end == Min2(prog.end, E)
        min_ok_end == seg_start + D
        ends == {full_end}
                \cup { t \in BisectWindow(build_interesting_times(I), seg_start + D) :
                         seg_start + D <= t /\ t <= prog.end /\ t <= E }
                \cup (IF min_ok_end <= prog.end /\ min_ok_end <= E
                      THEN {min_ok_end} ELSE {})
        chosen == SegCap(SegChosen(SortedSeq(ends), full_end, min_ok_end))
    IN  IF seg_start >= prog.end \/ seg_start >= E THEN <<>>
        ELSE SegPairs(seg_start, chosen)

segment_options(I, current_time, prog) ==
    LET O == I.opening_time
        E == I.closing_time
        D == I.min_duration
        seg_start == Max2(Max2(current_time, prog.start), O)
        full_end == Min2(prog.end, E)
        min_ok_end == seg_start + D
        ends == {full_end}
                \cup { t \in BisectWindow(build_interesting_times(I), seg_start + D) :
                         seg_start + D <= t /\ t <= prog.end /\ t <= E }
                \cup (IF min_ok_end <= prog.end /\ min_ok_end <= E
                      THEN {min_ok_end} ELSE {})
        chosen == SegCap(SegChosen(SortedSeq(ends), full_end, min_ok_end))
    IN  IF seg_start >= prog.end \/ seg_start >= E THEN <<>>
        ELSE SegPairs(seg_start, SelectSeq(chosen, LAMBDA e : e - seg_start >= D))

\* _virtual_program: the programme with a truncated interval
virtual_program(prog, new_start, new_end) ==
    [prog EXCEPT !.start = new_start, !.end = new_end]

\* the fitness expression of _beam_search, _backtrack_improve, _score_full_schedule
SegFitness(current_solution, I, ch, prog, seg_start, seg_end) ==
    LET vprog == virtual_program(prog, seg_start, seg_end)
    IN  prog.score
        + get_time_preference_bonus(I, vprog, seg_start)
        + get_switch_penalty(current_solution, I, ch)
        + get_delay_penalty(current_solution, I, vprog, seg_start)
        + get_early_termination_penalty(current_solution, I, vprog, seg_start)

Node(score, t, sol) == [score |-> score, time |-> t, sol |-> sol]

RECURSIVE Concat(_)
Concat(seqs) == IF seqs = <<>> THEN <<>> ELSE Head(seqs) \o Concat(Tail(seqs))

\* the successors one segment list gives: the loop over _segment_options
SegNodes(I, st, ch, prog, segs) ==
    LET ok == SelectSeq(segs, LAMBDA sg :
                  sg[1] < sg[2]
                  /\ ~ (st.sol # <<>> /\ sg[1] < Last(st.sol).end))
    IN  [j \in 1..Len(ok) |->
           LET fitness == SegFitness(st.sol, I, ch, prog, ok[j][1], ok[j][2])
           IN  Node(st.score + fitness, ok[j][2],
                    Append(st.sol, Schedule(ch.channel_id, prog.program_id, ok[j][1],
                                            ok[j][2], fitness, prog.unique_id)))]

\* _beam_search, the body of `for ch_idx in valid_channels`
BeamChannelExpansions(I, st, ch_idx) ==
    LET ch   == I.channels[ch_idx]
        prog == get_channel_program_by_time(ch, st.time)
    IN  IF prog = NoProgram THEN <<>>
        ELSE IF st.sol # <<>> /\ Last(st.sol).unique_program_id = prog.unique_id
                /\ st.time < Last(st.sol).end
        THEN <<>>
        ELSE SegNodes(I, st, ch, prog, segment_options(I, st.time, prog))

\* a skip that moves the state forward by one minute whatever the table says
SkipNode_OneMinute(I, self, st) ==
    Node(st.score, Min2(st.time + 1, I.closing_time), st.sol)

\* the state moved forward by the skip table, schedule and score unchanged
SkipNode(I, self, st) ==
    Node(st.score, Min2(st.time + SkipGet(I, self, st.time), I.closing_time), st.sol)

\* _beam_search, the body of `for ... in beam` for a state that is not retired
ExpandResult(I, self, st, expansions) ==
    IF expansions = <<>> THEN << SkipNode(I, self, st) >> ELSE expansions

ExpandValid(I, self, st, valid_channels) ==
    IF valid_channels = <<>> THEN << SkipNode(I, self, st) >>
    ELSE ExpandResult(I, self, st,
            Concat([k \in 1..Len(valid_channels) |->
                      BeamChannelExpansions(I, st, valid_channels[k])]))

ExpandState(I, self, st) ==
    IF st.time >= I.closing_time THEN <<>>
    ELSE ExpandValid(I, self, st, get_valid_schedules(st.sol, I, st.time))

\* best_score / best_solution after looking at the completed states of `states`
RECURSIVE UpdateBest(_, _, _, _)
UpdateBest(I, best, states, i) ==
    IF i > Len(states) THEN best
    ELSE IF states[i].time >= I.closing_time /\ states[i].score > best.score
         THEN UpdateBest(I, [score |-> states[i].score, sol |-> states[i].sol],
                         states, i + 1)
         ELSE UpdateBest(I, best, states, i + 1)

\* heapq.nlargest(n, candidates, key=score): stable, best first
RECURSIVE NLargest(_, _)
NLargest_First(n, cands) == SubSeq(cands, 1, Min2(n, Len(cands)))

\* heapq.nlargest(n, cands, key=score): descending, ties in list order
NLargest(n, cands) ==
    IF n = 0 \/ cands = <<>> THEN <<>>
    ELSE LET i == CHOOSE j \in 1..Len(cands) :
                     /\ \A k \in 1..Len(cands) : cands[k].score <= cands[j].score
                     /\ \A k \in 1..(j - 1) : cands[k].score < cands[j].score
         IN  <<cands[i]>> \o
             NLargest(n - 1, SubSeq(cands, 1, i - 1) \o SubSeq(cands, i + 1, Len(cands)))

BeamCandidates(I, self, states) ==
    Concat([i \in 1..Len(states) |-> ExpandState(I, self, states[i])])

\* one iteration of `while beam`: <<the loop goes on, beam, best>>
BeamIterate(I, self, best1, candidates) ==
    IF candidates = <<>> THEN [go |-> FALSE, beam |-> <<>>, best |-> best1]
    ELSE [go |-> TRUE,
          beam |-> NLargest(self.beam_width, candidates),
          best |-> UpdateBest(I, best1, NLargest(self.beam_width, candidates), 1)]

BeamIteration(I, self, states, best) ==
    BeamIterate(I, self, UpdateBest(I, best, states, 1), BeamCandidates(I, self, states))

\* what _beam_search returns
BeamSearchReturn(best) ==
    IF best.score = NegInf THEN [sol |-> <<>>, score |-> 0]
    ELSE [sol |-> best.sol, score |-> best.score]

\* BeamSearchScheduler._score_full_schedule: the term one entry adds
FullScoreTerm(I, scheduled, i) ==
    LET sch == scheduled[i]
        prefix == SubSeq(scheduled, 1, i - 1)
        chs == { c \in 1..Len(I.channels) : I.channels[c].channel_id = sch.channel_id }
    IN  IF chs = {} THEN 0
        ELSE LET ch == I.channels[CHOOSE c \in chs : \A d \in chs : c <= d]
                 byUid == { k \in 1..Len(ch.programs) :
                              ch.programs[k].unique_id = sch.unique_program_id }
                 byId  == { k \in 1..Len(ch.programs) :
                              ch.programs[k].program_id = sch.program_id }
                 found == IF byUid # {} THEN byUid ELSE byId
             IN  IF found = {} THEN 0
                 ELSE SegFitness(prefix, I, ch,
                                 ch.programs[CHOOSE k \in found : \A d \in found : k <= d],
                                 sch.start, sch.end)

RECURSIVE FullScoreSum(_, _, _)
FullScoreSum(I, scheduled, i) ==
    IF i = 0 THEN 0
    ELSE FullScoreSum(I, scheduled, i - 1) + FullScoreTerm(I, scheduled, i)

score_full_schedule(I, scheduled) == FullScoreSum(I, scheduled, Len(scheduled))

\* _backtrack_improve, the body of `for ch_idx in valid_channels`
BacktrackChannelExpansions(I, st, ch_idx) ==
    LET ch   == I.channels[ch_idx]
        prog == get_channel_program_by_time(ch, st.time)
        segs == IF prog = NoProgram THEN <<>> ELSE segment_options(I, st.time, prog)
        ok   == SelectSeq(segs, LAMBDA sg :
                    ~ (st.sol # <<>> /\ sg[1] < Last(st.sol).end))
    IN  [j \in 1..Len(ok) |->
           LET fitness == SegFitness(st.sol, I, ch, prog, ok[j][1], ok[j][2])
           IN  Node(st.score + fitness, ok[j][2],
                    Append(st.sol, Schedule(ch.channel_id, prog.program_id, ok[j][1],
                                            ok[j][2], fitness, prog.unique_id)))]

\* _backtrack_improve, the body of `for ... in nodes`
RefillResult(I, self, st, expansions) ==
    IF expansions = <<>> THEN << SkipNode(I, self, st) >>
    ELSE NLargest(self.beam_width, expansions)

RefillValid(I, self, st, valid_channels) ==
    IF valid_channels = <<>> THEN << SkipNode(I, self, st) >>
    ELSE RefillResult(I, self, st,
            Concat([k \in 1..Len(valid_channels) |->
                      BacktrackChannelExpansions(I, st, valid_channels[k])]))

RefillNode(I, self, st) ==
    IF st.time >= I.closing_time THEN << st >>
    ELSE RefillValid(I, self, st, get_valid_schedules(st.sol, I, st.time))

\* one pass of `for _ in range(max_depth)`: next_nodes
BacktrackDepthStep(I, self, nodes) ==
    Concat([i \in 1..Len(nodes) |-> RefillNode(I, self, nodes[i])])

\* a _backtrack_improve that regrows the whole schedule from the opening time
BacktrackStart_FromOpening(I, scheduled, window) ==
    << Node(0, I.opening_time, <<>>) >>

\* the first node of _backtrack_improve
BacktrackStart(I, scheduled, window) ==
    LET prefix == SubSeq(scheduled, 1, Len(scheduled) - Min2(window, Len(scheduled)))
    IN  << Node(score_full_schedule(I, prefix),
                IF prefix # <<>> THEN Last(prefix).end ELSE I.opening_time,
                prefix) >>

\* the end of _backtrack_improve that keeps the regrown schedule whatever it scores
BacktrackChoose_Always(scheduled, score, best_sol, new_total) ==
    [sol |-> best_sol, score |-> new_total]

\* an end of _backtrack_improve that keeps the regrown schedule under the score
\* of the schedule it was given
BacktrackChoose_StaleScore(scheduled, score, best_sol, new_total) ==
    IF new_total > score THEN [sol |-> best_sol, score |-> score]
    ELSE [sol |-> scheduled, score |-> score]

\* the end of _backtrack_improve: keep the regrown schedule only if it scores more
BacktrackChoose(scheduled, score, best_sol, new_total) ==
    IF new_total > score THEN [sol |-> best_sol, score |-> new_total]
    ELSE [sol |-> scheduled, score |-> score]

BacktrackFinish(I, scheduled, score, nodes) ==
    LET best_node == NLargest(1, nodes)[1]
    IN  BacktrackChoose(scheduled, score, best_node.sol,
                        score_full_schedule(I, best_node.sol))

RECURSIVE BacktrackLoop(_, _, _, _)
BacktrackLoop(I, self, nodes, depth) ==
    IF depth = 0 THEN nodes
    ELSE BacktrackLoop(I, self, BacktrackDepthStep(I, self, nodes), depth - 1)

\* _backtrack_improve as a whole
backtrack_improve(I, self, scheduled, score, window) ==
    IF Len(scheduled) = 0 \/ window <= 0 THEN [sol |-> scheduled, score |-> score]
    ELSE BacktrackFinish(I, scheduled, score,
            BacktrackLoop(I, self, BacktrackStart(I, scheduled, window),
                          Min2(window, Len(scheduled))))

\* ------------------------------------------------------------------ Greedy
\* GreedyRejects without the overlap test of greedy_scheduler.py line 42
GreedyRejects_NoOverlapTest(I, sol, best_channel, channel_program, fitness) ==
    \/ best_channel = NoChannel \/ channel_program = NoProgram \/ fitness <= 0
    \/ (sol # <<>> /\ Last(sol).unique_program_id = channel_program.unique_id)
    \/ channel_program.end - channel_program.start < I.min_duration

\* GreedyRejects without the minimum-duration test of greedy_scheduler.py line 48
GreedyRejects_NoDurationTest(I, sol, best_channel, channel_program, fitness) ==
    \/ best_channel = NoChannel \/ channel_program = NoProgram \/ fitness <= 0
    \/ (sol # <<>> /\ Last(sol).unique_program_id = channel_program.unique_id)
    \/ (sol # <<>> /\ channel_program.start < Last(sol).end)

\* GreedyScheduler.generate_solution: the `continue` tests that follow
\* get_best_fit (nothing scored, duplicate, overlap, too short)
GreedyRejects(I, sol, best_channel, channel_program, fitness) ==
    \/ best_channel = NoChannel \/ channel_program = NoProgram \/ fitness <= 0
    \/ (sol # <<>> /\ Last(sol).unique_program_id = channel_program.unique_id)
    \/ (sol # <<>> /\ channel_program.start < Last(sol).end)
    \/ channel_program.end - channel_program.start < I.min_duration

\* the Schedule Greedy appends: the programme's own start and end
GreedyEntry(best_channel, channel_program, fitness) ==
    Schedule(best_channel.channel_id, channel_program.program_id,
             channel_program.start, channel_program.end, fitness,
             channel_program.unique_id)

\* GreedyScheduler.generate_solution: one iteration of the while loop
GreedyStep ==
    /\ alg = "greedy" /\ pc = "run"
    /\ time < inst.closing_time
    /\ \E valid \in {get_valid_schedules(solution, inst, time)} :
       \E best \in {get_best_fit(solution, inst, time, valid)} :
          IF valid = <<>> \/ GreedyRejects(inst, solution, best[1], best[2], best[3])
          THEN /\ time' = time + 1
               /\ UNCHANGED <<solution, total_score>>
          ELSE /\ solution' = Append(solution, GreedyEntry(best[1], best[2], best[3]))
               /\ time' = best[2].end
               /\ total_score' = total_score + best[3]
    /\ UNCHANGED <<inst, adv, dyn, alg, pc, bs, beam, best_state, bt_nodes, bt_depth, result>>

GreedyReturn ==
    /\ alg = "greedy" /\ pc = "run"
    /\ ~ (time < inst.closing_time)
    /\ result' = Solution(solution, total_score)
    /\ pc' = "done"
    /\ UNCHANGED <<inst, adv, dyn, alg, time, solution, total_score, bs, beam, best_state,
                   bt_nodes, bt_depth>>

\* ------------------------------------- GreedyLookahead.generate_solution
\* _single_run: the earliest programme start after `t` over all channels,
\* or t + 1 when there is none
NextStart(I, t) ==
    LET later == { p.start : p \in { q \in AllPrograms(I) : q.start > t } }
    IN  IF later = {} THEN t + 1
        ELSE CHOOSE x \in later : \A y \in later : x <= y

\* _single_run: future_best of a candidate, the best fitness at its end
FutureBest(sol, I, channel, program, score_now) ==
    LET temp_schedule == Schedule(channel.channel_id, program.program_id,
                                  program.start, program.end, score_now,
                                  program.unique_id)
        simulated_plan == Append(sol, temp_schedule)
        future_time == program.end
    IN  IF future_time <= I.closing_time
        THEN LET valid_next == get_valid_schedules(simulated_plan, I, future_time)
             IN  IF valid_next # <<>>
                 THEN get_best_fit(simulated_plan, I, future_time, valid_next)[3]
                 ELSE 0
        ELSE 0

\* _single_run: the candidate loop, best = <<channel, program, max_score>>
RECURSIVE LookaheadLoop(_, _, _, _, _, _)
LookaheadLoop(sol, I, t, valid, i, best) ==
    IF i > Len(valid) THEN best
    ELSE LET channel == I.channels[valid[i]]
             program == get_channel_program_by_time(channel, t)
             score_now == FitScore(sol, I, channel, program, t)
             score == score_now + FutureBest(sol, I, channel, program, score_now)
         IN  IF program = NoProgram
             THEN LookaheadLoop(sol, I, t, valid, i + 1, best)
             ELSE IF score > best[3]
                  THEN LookaheadLoop(sol, I, t, valid, i + 1, <<channel, program, score>>)
                  ELSE LookaheadLoop(sol, I, t, valid, i + 1, best)

\* _single_run: the previous entry is cut at the new entry's start when that
\* start falls inside it
TruncateLast(sol, schedule) ==
    IF sol # <<>> /\ Last(sol).start <= schedule.start /\ schedule.start < Last(sol).end
    THEN [sol EXCEPT ![Len(sol)].end = schedule.start]
    ELSE sol

\* GreedyLookahead._single_run: one iteration of the while loop
LookaheadStep ==
    /\ alg = "lookahead" /\ pc = "run"
    /\ time <= inst.closing_time
    /\ \E valid \in {get_valid_schedules(solution, inst, time)} :
       IF valid = <<>>
       THEN /\ time' = NextStart(inst, time)
            /\ UNCHANGED <<solution, total_score>>
       ELSE \E best \in {LookaheadLoop(solution, inst, time, valid, 1,
                                        <<NoChannel, NoProgram, NegInf>>)} :
            \E fitness \in {IF best[3] # NegInf THEN best[3] ELSE 0} :
               IF \/ fitness <= 0
                  \/ (solution # <<>> /\ Last(solution).channel_id = best[1].channel_id)
               THEN /\ time' = time + 1
                    /\ UNCHANGED <<solution, total_score>>
               ELSE /\ solution' = Append(TruncateLast(solution, GreedyEntry(best[1], best[2], fitness)),
                                          GreedyEntry(best[1], best[2], fitness))
                    /\ time' = time + inst.min_duration
                    /\ total_score' = total_score + fitness
    /\ UNCHANGED <<inst, adv, dyn, alg, pc, bs, beam, best_state, bt_nodes, bt_depth, result>>

LookaheadReturn ==
    /\ alg = "lookahead" /\ pc = "run"
    /\ ~ (time <= inst.closing_time)
    /\ result' = Solution(solution, total_score)
    /\ pc' = "done"
    /\ UNCHANGED <<inst, adv, dyn, alg, time, solution, total_score, bs, beam, best_state,
                   bt_nodes, bt_depth>>

\* -------------------------------- BeamSearchScheduler.generate_solution
\* _beam_search: one iteration of `while beam` that ends with a new beam
BeamSearchStep ==
    /\ alg = "beam" /\ pc = "search"
    /\ \E it \in {BeamIteration(inst, bs, beam, best_state)} :
         /\ it.go
         /\ beam' = it.beam
         /\ best_state' = it.best
    /\ UNCHANGED <<inst, adv, dyn, alg, pc, time, solution, total_score, bs, bt_nodes, bt_depth,
                   result>>

\* _beam_search: the iteration that finds no candidates, `break`, and the return
BeamSearchExit ==
    /\ alg = "beam" /\ pc = "search"
    /\ \E it \in {BeamIteration(inst, bs, beam, best_state)} :
         /\ ~ it.go
         /\ beam' = it.beam
         /\ best_state' = it.best
         /\ solution' = BeamSearchReturn(it.best).sol
         /\ total_score' = BeamSearchReturn(it.best).score
    /\ pc' = "searched"
    /\ UNCHANGED <<inst, adv, dyn, alg, time, bs, bt_nodes, bt_depth, result>>

\* generate_solution: no backtracking (window 0 or an empty schedule)
BeamReturn ==
    /\ alg = "beam" /\ pc = "searched"
    /\ ~ (bs.backtrack_window > 0 /\ solution # <<>>)
    /\ result' = Solution(solution, total_score)
    /\ pc' = "done"
    /\ UNCHANGED <<inst, adv, dyn, alg, time, solution, total_score, bs, beam, best_state, bt_nodes,
                   bt_depth>>

\* _backtrack_improve: up to the first node
BacktrackEnter ==
    /\ alg = "beam" /\ pc = "searched"
    /\ bs.backtrack_window > 0 /\ solution # <<>>
    /\ bt_nodes' = BacktrackStart(inst, solution, bs.backtrack_window)
    /\ bt_depth' = Min2(bs.backtrack_window, Len(solution))
    /\ pc' = "backtrack"
    /\ UNCHANGED <<inst, adv, dyn, alg, time, solution, total_score, bs, beam, best_state, result>>

\* _backtrack_improve: one pass of the bt_depth loop
BacktrackStep ==
    /\ alg = "beam" /\ pc = "backtrack"
    /\ bt_depth > 0
    /\ bt_nodes' = BacktrackDepthStep(inst, bs, bt_nodes)
    /\ bt_depth' = bt_depth - 1
    /\ UNCHANGED <<inst, adv, dyn, alg, pc, time, solution, total_score, bs, beam, best_state,
                   result>>

\* _backtrack_improve: the choice, and generate_solution's return
BacktrackReturn ==
    /\ alg = "beam" /\ pc = "backtrack"
    /\ bt_depth = 0
    /\ \E r \in {BacktrackFinish(inst, solution, total_score, bt_nodes)} :
         result' = Solution(r.sol, r.score)
    /\ pc' = "done"
    /\ UNCHANGED <<inst, adv, dyn, alg, time, solution, total_score, bs, beam, best_state, bt_nodes,
                   bt_depth>>

\* ------------------------------------------- BeamSearchSchedulerAdvanced
\* __init__: the clamped parameters
BeamSearchSchedulerAdvanced(beam_width, validate_constraints, jump_cap, backtrack_window, restarts) ==
    [beam_width |-> Max2(1, beam_width), validate_constraints |-> validate_constraints,
     jump_cap |-> Max2(1, jump_cap), backtrack_window |-> Max2(1, backtrack_window),
     restarts |-> Max2(1, restarts)]

\* _build_interesting_times: programme starts and ends inside the window
AdvancedInterestingTimes(I) ==
    SortedSeq({ t \in { p.start : p \in AllPrograms(I) } \cup { p.end : p \in AllPrograms(I) } :
                  I.opening_time <= t /\ t <= I.closing_time })

\* _build_skip_table: skip[t], with idx = bisect_right(times, t)
AdvancedSkipEntry(I, self, t) ==
    LET times == AdvancedInterestingTimes(I)
        idx == Cardinality({ j \in 1..Len(times) : times[j] <= t })
    IN  IF idx >= Len(times) THEN Min2(self.jump_cap, I.closing_time - t)
        ELSE Min2(times[idx + 1] - t, self.jump_cap)

\* self.skip_table.get(t, jump_cap)
AdvancedSkipGet(I, self, t, jump_cap) ==
    IF I.opening_time <= t /\ t < I.closing_time
    THEN AdvancedSkipEntry(I, self, t) ELSE jump_cap

\* _adjust_beam_width
adjust_beam_width(self, best_score, restart) ==
    IF best_score < 0 THEN Min2(self.beam_width + restart, 8)
    ELSE IF restart % 2 = 0 THEN Max2(2, self.beam_width - 1)
         ELSE self.beam_width + 1

\* the orders random.shuffle can leave `channels` in
ChannelOrders(I) ==
    LET n == Len(I.channels)
    IN  { f \in [1..n -> 1..n] : \A a \in 1..n : \A b \in 1..n : f[a] = f[b] => a = b }

\* _beam_search_core: the candidate one valid channel adds, or none
AdvancedExpansion(I, st, ch_idx) ==
    LET ch   == I.channels[ch_idx]
        prog == get_channel_program_by_time(ch, st.time)
    IN  IF prog = NoProgram THEN <<>>
        ELSE IF st.sol # <<>> /\ (\/ Last(st.sol).unique_program_id = prog.unique_id
                                  \/ prog.start < Last(st.sol).end)
        THEN <<>>
        ELSE LET fitness == FitScore(st.sol, I, ch, prog, st.time)
             IN  << Node(st.score + fitness, prog.end,
                         Append(st.sol, Schedule(ch.channel_id, prog.program_id, prog.start,
                                                 prog.end, fitness, prog.unique_id))) >>

AdvancedSkipNode(I, self, st, jump_cap) ==
    Node(st.score, Min2(st.time + AdvancedSkipGet(I, self, st.time, jump_cap), I.closing_time),
         st.sol)

AdvancedExpandResult(I, self, st, jump_cap, expanded) ==
    IF expanded = <<>> THEN << AdvancedSkipNode(I, self, st, jump_cap) >> ELSE expanded

AdvancedExpandValid(I, self, st, jump_cap, valid_channels) ==
    IF valid_channels = <<>> THEN << AdvancedSkipNode(I, self, st, jump_cap) >>
    ELSE AdvancedExpandResult(I, self, st, jump_cap,
            Concat([k \in 1..Len(valid_channels) |->
                      AdvancedExpansion(I, st, valid_channels[k])]))

\* _beam_search_core, the body of `for score, t, partial in beam`;
\* `channels` is the list of all channel indexes, shuffled or not
AdvancedExpandState(I, self, st, jump_cap, channels) ==
    IF st.time >= I.closing_time THEN <<>>
    ELSE AdvancedExpandValid(I, self, st, jump_cap,
            IF self.validate_constraints
            THEN get_valid_schedules(st.sol, I, st.time)
            ELSE channels)

\* _beam_search_core that never records a finished state
AdvancedRetire_Never(I, best, states, i) == best

\* _beam_search_core: best_score / best_solution after the finished states
\* (t >= closing_time) of `states` from position i on
RECURSIVE AdvancedRetire(_, _, _, _)
AdvancedRetire(I, best, states, i) ==
    IF i > Len(states) THEN best
    ELSE IF states[i].time >= I.closing_time /\ states[i].score > best.score
         THEN AdvancedRetire(I, [score |-> states[i].score, sol |-> states[i].sol],
                             states, i + 1)
         ELSE AdvancedRetire(I, best, states, i + 1)

AdvancedCandidates(I, self, states, jump_cap, orders) ==
    Concat([i \in 1..Len(states) |->
              AdvancedExpandState(I, self, states[i], jump_cap, orders[i])])

\* int(x) of a float accumulator: OverflowError on an infinity
Raised == [scheduled_programs |-> <<>>, total_score |-> 0, raised |-> TRUE]

IdentityOrders(I, states) ==
    [i \in 1..Len(states) |-> [c \in 1..Len(I.channels) |-> c]]

\* generate_solution: the head of one pass of `for restart in range(...)`
AdvancedRestart ==
    /\ alg = "advanced" /\ pc = "restart"
    /\ adv.restart <= bs.restarts
    /\ adv' = [adv EXCEPT
                 !.adaptive_beam = adjust_beam_width(bs, adv.best_score, adv.restart),
                 !.adaptive_jump = bs.jump_cap + adv.restart * 5]
    /\ beam' = << Node(0, inst.opening_time, <<>>) >>
    /\ best_state' = [score |-> NegInf, sol |-> <<>>]
    /\ pc' = "core"
    /\ UNCHANGED <<inst, dyn, alg, time, solution, total_score, bs, bt_nodes, bt_depth, result>>

\* _beam_search_core: one pass of `while beam` that yields candidates
AdvancedCoreStep ==
    /\ alg = "advanced" /\ pc = "core"
    /\ \E orders \in IF bs.validate_constraints THEN {IdentityOrders(inst, beam)}
                      ELSE [1..Len(beam) -> ChannelOrders(inst)] :
       \E candidates \in {AdvancedCandidates(inst, bs, beam, adv.adaptive_jump, orders)} :
          /\ candidates # <<>>
          /\ beam' = NLargest(adv.adaptive_beam, candidates)
    /\ best_state' = AdvancedRetire(inst, best_state, beam, 1)
    /\ UNCHANGED <<inst, adv, dyn, alg, pc, time, solution, total_score, bs, bt_nodes,
                   bt_depth, result>>

\* _beam_search_core: the pass that yields no candidate and breaks, the
\* return, and the tail of the restart pass in generate_solution
AdvancedCoreExit ==
    /\ alg = "advanced" /\ pc = "core"
    /\ AdvancedCandidates(inst, bs, beam, adv.adaptive_jump, IdentityOrders(inst, beam)) = <<>>
    /\ \E core \in {AdvancedRetire(inst, best_state, beam, 1)} :
          /\ best_state' = core
          /\ adv' = IF core.score > adv.best_score
                    THEN [adv EXCEPT !.best_score = core.score, !.best_solution = core.sol,
                                     !.restart = adv.restart + 1]
                    ELSE [adv EXCEPT !.restart = adv.restart + 1]
    /\ pc' = "restart"
    /\ UNCHANGED <<inst, dyn, alg, time, solution, total_score, bs, beam, bt_nodes,
                   bt_depth, result>>

\* generate_solution: the return after the last restart
AdvancedReturn ==
    /\ alg = "advanced" /\ pc = "restart"
    /\ adv.restart > bs.restarts
    /\ result' = IF adv.best_score = NegInf THEN Raised
                 ELSE Solution(adv.best_solution, adv.best_score)
    /\ pc' = "done"
    /\ UNCHANGED <<inst, adv, dyn, alg, time, solution, total_score, bs, beam, best_state,
                   bt_nodes, bt_depth>>

\* _beam_search_core raises inside a pass of `while beam` (a call it makes
\* fails): generate_solution has no handler around the call, so the exception
\* leaves generate_solution and the restarts that remain do not run
AdvancedCoreRaise ==
    /\ alg = "advanced" /\ pc = "core"
    /\ result' = Raised
    /\ pc' = "done"
    /\ UNCHANGED <<inst, adv, dyn, alg, time, solution, total_score, bs, beam, best_state,
                   bt_nodes, bt_depth>>

\* ----------------------------- BeyondDynamicBeamSearchSchedulerAdvanced
\* BeamSearchScheduler._beam_search, run to its return
RECURSIVE BeamSearchLoop(_, _, _)
BeamSearchLoop(I, self, it) ==
    IF it.go THEN BeamSearchLoop(I, self, BeamIteration(I, self, it.beam, it.best))
    ELSE BeamSearchReturn(it.best)

beam_search(I, self) ==
    BeamSearchLoop(I, self,
        [go |-> TRUE, beam |-> << Node(0, I.opening_time, <<>>) >>,
         best |-> [score |-> NegInf, sol |-> <<>>]])

BeamBacktracked(I, self, found) ==
    backtrack_improve(I, self, found.sol, found.score, self.backtrack_window)

BeamSolution(improved) == Solution(improved.sol, improved.score)

\* BeamSearchScheduler.generate_solution, as the Solution it returns
beam_generate_solution(I, self) ==
    BeamSolution(BeamBacktracked(I, self, beam_search(I, self)))

\* _lookup_program: the programme airing at start_time on the first channel
\* with this id, or none
lookup_program(I, channel_id, start_time) ==
    LET chs == { c \in 1..Len(I.channels) : I.channels[c].channel_id = channel_id }
    IN  IF chs = {} THEN NoProgram
        ELSE get_channel_program_by_time(
                 I.channels[CHOOSE c \in chs : \A d \in chs : c <= d], start_time)

\* _get_program_genre: "none" stands for None (entries carry no genre)
get_program_genre(I, sched_entry) ==
    lookup_program(I, sched_entry.channel_id, sched_entry.start).genre

\* _respects_genre_limit: <<last_genre, streak, ok>> after the first i entries
RECURSIVE GenreStreak(_, _, _)
GenreStreak(I, schedule, i) ==
    IF i = 0 THEN <<"none", 0, TRUE>>
    ELSE LET before == GenreStreak(I, schedule, i - 1)
             g == get_program_genre(I, schedule[i])
         IN  IF ~ before[3] THEN before
             ELSE IF g = "none" THEN <<"none", 0, TRUE>>
             ELSE IF g = before[1]
                  THEN <<g, before[2] + 1, before[2] + 1 <= I.max_consecutive_genre>>
                  ELSE <<g, 1, 1 <= I.max_consecutive_genre>>

respects_genre_limit(I, schedule) == GenreStreak(I, schedule, Len(schedule))[3]

\* the defaults of the instance attributes _score_full_schedule reads
overlap_penalty == 10000
misorder_penalty == 1000
genre_window == 3
genre_diversity_bonus == 5
same_genre_chain_penalty == 8

SetOfSeq(q) == { q[j] : j \in 1..Len(q) }

\* Beyond._score_full_schedule: [total, recent_genres, last_genre] after i entries
RECURSIVE DynScoreLoop(_, _, _)
DynScoreLoop(I, schedule, i) ==
    IF i = 0 THEN [total |-> 0, recent_genres |-> <<>>, last_genre |-> "none"]
    ELSE LET before == DynScoreLoop(I, schedule, i - 1)
             sch == schedule[i]
             order == IF i > 1
                      THEN (IF sch.start < schedule[i - 1].end
                            THEN (IF schedule[i - 1].channel_id = sch.channel_id
                                  THEN 0 - overlap_penalty ELSE 0 - misorder_penalty)
                            ELSE 0)
                           + (IF schedule[i - 1].channel_id # sch.channel_id
                              THEN 0 - I.switch_penalty ELSE 0)
                      ELSE 0
             g == get_program_genre(I, sch)
             appended == Append(before.recent_genres, g)
             recent == IF Len(appended) > genre_window THEN Tail(appended) ELSE appended
         IN  IF g = "none"
             THEN [before EXCEPT !.total = before.total + sch.fitness + order]
             ELSE [total |-> before.total + sch.fitness + order
                             + (IF g = before.last_genre
                                THEN 0 - same_genre_chain_penalty ELSE 0)
                             + genre_diversity_bonus
                               * Max2(0, Cardinality(SetOfSeq(recent)) - 1),
                   recent_genres |-> recent,
                   last_genre |-> g]

dyn_score_full_schedule(I, schedule) ==
    IF schedule = <<>> THEN 0
    ELSE IF ~ respects_genre_limit(I, schedule) THEN 0 - 1000000000
    ELSE DynScoreLoop(I, schedule, Len(schedule)).total

\* the "_pad" entry of _refill_window
Pad == Schedule(0 - 1, 0 - 1, 0, 0, 0, 0 - 1)

Take(q, n) == SubSeq(q, 1, Min2(n, Len(q)))
Drop(q, n) == SubSeq(q, Min2(n, Len(q)) + 1, Len(q))

\* _create_scheduler
create_scheduler(self, dynamic_width) ==
    BeamSearchScheduler(IF dynamic_width <= 0 THEN 1 ELSE dynamic_width,
                        self.jump_cap, self.backtrack_window)

RefillImproved(I, scheduler, base, window) ==
    backtrack_improve(I, scheduler, base, score_full_schedule(I, base), window)

\* _refill_window: the regrown prefix, cut to len(prefix) + window entries
refill_window(I, self, prefix, window) ==
    Take(RefillImproved(I, create_scheduler(self, Max2(1, Min2(self.beam_width, 6))),
                        prefix \o [j \in 1..window |-> Pad], window).sol,
         Len(prefix) + window)

\* _enhanced_backtrack: one trial; st = [best_sched, best_score, trials_used]
EnhancedTrialResult(I, st, full_candidate) ==
    IF ~ respects_genre_limit(I, full_candidate)
    THEN [st EXCEPT !.trials_used = st.trials_used + 1]
    ELSE IF dyn_score_full_schedule(I, full_candidate) > st.best_score
         THEN [best_sched |-> full_candidate,
               best_score |-> dyn_score_full_schedule(I, full_candidate),
               trials_used |-> st.trials_used + 1]
         ELSE [st EXCEPT !.trials_used = st.trials_used + 1]

EnhancedTrial(I, self, scheduled, st, window, start_idx) ==
    EnhancedTrialResult(I, st,
        refill_window(I, self, Take(scheduled, start_idx), window)
        \o Drop(scheduled, start_idx + window))

\* the loop `for start_idx in range(0, last_start + 1, step_size)`
RECURSIVE EnhancedStarts(_, _, _, _, _, _, _, _)
EnhancedStarts(I, self, scheduled, st, window, start_idx, step_size, max_trials) ==
    IF start_idx > Len(scheduled) - window \/ st.trials_used >= max_trials THEN st
    ELSE EnhancedStarts(I, self, scheduled,
                        EnhancedTrial(I, self, scheduled, st, window, start_idx),
                        window, start_idx + step_size, step_size, max_trials)

StepSize(n, window, st, max_trials) ==
    Max2(1, (n - window + 1) \div Max2(1, Min2(n - window + 1, max_trials - st.trials_used)))

\* the loop `for window in range(1, W + 1)`
RECURSIVE EnhancedWindows(_, _, _, _, _, _, _)
EnhancedWindows(I, self, scheduled, st, window, W, max_trials) ==
    IF window > W \/ st.trials_used >= max_trials THEN st
    ELSE EnhancedWindows(I, self, scheduled,
                         EnhancedStarts(I, self, scheduled, st, window, 0,
                                        StepSize(Len(scheduled), window, st, max_trials),
                                        max_trials),
                         window + 1, W, max_trials)

\* _enhanced_backtrack
enhanced_backtrack(I, self, scheduled, score, max_trials) ==
    IF Len(scheduled) = 0 \/ self.backtrack_window <= 0
    THEN [best_sched |-> scheduled, best_score |-> score, trials_used |-> 0]
    ELSE EnhancedWindows(I, self, scheduled,
                         [best_sched |-> scheduled, best_score |-> score, trials_used |-> 0],
                         1, Min2(self.backtrack_window, Len(scheduled)), Max2(1, max_trials))

\* _local_search_replace: the candidate that puts channel ch_idx's programme
\* at position idx of best_sched
ReplaceCandidate(I, best_sched, idx, ch_idx) ==
    LET prefix == Take(best_sched, idx - 1)
        start_time == best_sched[idx].start
        ch == I.channels[ch_idx]
        prog == get_channel_program_by_time(ch, start_time)
    IN  Append(prefix,
               Schedule(ch.channel_id, prog.program_id, prog.start, prog.end,
                        FitScore(prefix, I, ch, prog, start_time), prog.unique_id))
        \o Drop(best_sched, idx)

\* whether the channel loop reaches the score comparison for ch_idx
ReplaceEligible(I, best_sched, idx, ch_idx) ==
    LET prog == get_channel_program_by_time(I.channels[ch_idx], best_sched[idx].start)
    IN  /\ prog # NoProgram
        /\ prog.unique_id # best_sched[idx].unique_program_id
        /\ is_channel_valid(Take(best_sched, idx - 1), I, ch_idx, best_sched[idx].start)
        /\ respects_genre_limit(I, ReplaceCandidate(I, best_sched, idx, ch_idx))

\* the loop `for ch_idx, ch in enumerate(channels)`; st = [sched, score]
RECURSIVE ReplaceChannels(_, _, _, _)
ReplaceChannels(I, st, idx, ch_idx) ==
    IF ch_idx > Len(I.channels) THEN st
    ELSE IF /\ ReplaceEligible(I, st.sched, idx, ch_idx)
            /\ dyn_score_full_schedule(I, ReplaceCandidate(I, st.sched, idx, ch_idx)) > st.score
         THEN [sched |-> ReplaceCandidate(I, st.sched, idx, ch_idx),
               score |-> dyn_score_full_schedule(I, ReplaceCandidate(I, st.sched, idx, ch_idx))]
         ELSE ReplaceChannels(I, st, idx, ch_idx + 1)

\* the loop `for idx in range(len(sched))`
RECURSIVE ReplacePositions(_, _, _, _)
ReplacePositions(I, st, idx, n) ==
    IF idx > n THEN st
    ELSE ReplacePositions(I, ReplaceChannels(I, st, idx, 1), idx + 1, n)

local_search_replace(I, sched) ==
    ReplacePositions(I, [sched |-> sched, score |-> dyn_score_full_schedule(I, sched)],
                     1, Len(sched))

Swapped(q, i, j) == [q EXCEPT ![i] = q[j], ![j] = q[i]]

SwapAccepted(I, sched, best_score, i, j) ==
    /\ \A k \in 2..Len(sched) : Swapped(sched, i, j)[k].start >= Swapped(sched, i, j)[k - 1].end
    /\ respects_genre_limit(I, Swapped(sched, i, j))
    /\ dyn_score_full_schedule(I, Swapped(sched, i, j)) > best_score

\* _local_search_swap: the first accepted pair in the order of the two loops
local_search_swap(I, sched) ==
    LET best_score == dyn_score_full_schedule(I, sched)
        n == Len(sched)
        pairs == { ij \in (1..n) \X (1..n) :
                     ij[1] < ij[2] /\ SwapAccepted(I, sched, best_score, ij[1], ij[2]) }
    IN  IF pairs = {} THEN [sched |-> sched, score |-> best_score]
        ELSE LET first == CHOOSE ij \in pairs : \A kl \in pairs :
                              ij[1] < kl[1] \/ (ij[1] = kl[1] /\ ij[2] <= kl[2])
             IN  [sched |-> Swapped(sched, first[1], first[2]),
                  score |-> dyn_score_full_schedule(I, Swapped(sched, first[1], first[2]))]

\* _apply_local_search taking every candidate a pass returns
Adopts_Always(cand_score, best_score) == TRUE

\* the comparison `cand_score > best_score` of _apply_local_search
Adopts(cand_score, best_score) == cand_score > best_score

\* _apply_local_search: the passes still to run; st = [sched, score]
RECURSIVE LocalSearchPasses(_, _, _)
LocalSearchPasses(I, st, passes) ==
    IF passes = 0 THEN st
    ELSE IF Adopts(local_search_replace(I, st.sched).score, st.score)
         THEN LocalSearchPasses(I, local_search_replace(I, st.sched), passes - 1)
         ELSE IF Adopts(local_search_swap(I, st.sched).score, st.score)
              THEN LocalSearchPasses(I, local_search_swap(I, st.sched), passes - 1)
              ELSE st

apply_local_search(I, self, best_solution) ==
    LET st == LocalSearchPasses(I, [sched |-> best_solution.scheduled_programs,
                                    score |-> best_solution.total_score],
                                self.local_search_passes)
    IN  Solution(st.sched, st.score)

\* float("inf"): above every score a schedule can have
PosInf == 2000000000

\* __init__: the clamped parameters and the run-time fields;
\* stagnation_delta2 is twice stagnation_delta (0.5), scores being integers
BeyondScheduler(beam_width, jump_cap, backtrack_window, iterative_deepening, max_beam_multiplier, restarts_min, restarts_max, local_search_passes) ==
    [beam_width |-> Max2(1, beam_width), jump_cap |-> Max2(1, jump_cap),
     backtrack_window |-> Max2(0, backtrack_window),
     iterative_deepening |-> iterative_deepening,
     max_beam_multiplier |-> Max2(1, max_beam_multiplier),
     stagnation_delta2 |-> 1,
     restarts_min |-> Max2(1, restarts_min),
     restarts_max |-> Max2(Max2(1, restarts_min), restarts_max),
     local_search_passes |-> Max2(0, local_search_passes),
     restarts_run |-> 0, best_score_history |-> <<>>,
     prev_is_none |-> TRUE, prev_restart_best |-> 0]

\* generate_solution_with_time: the locals before the restart loop
BeyondStart(self, restarts) ==
    [ f \in DOMAIN self \cup {"restarts", "r", "has_best", "best_solution", "best_score",
                              "current_dynamic_width", "mult"} |->
        CASE f = "restarts" ->
                 Max2(self.restarts_min,
                      Min2(IF restarts <= 0 THEN 1 ELSE restarts, self.restarts_max))
          [] f = "r" -> 0
          [] f = "has_best" -> FALSE
          [] f = "best_solution" -> NoResult
          [] f = "best_score" -> NegInf
          [] f = "current_dynamic_width" -> self.beam_width
          [] f = "mult" -> 2
          [] f = "restarts_run" -> 0
          [] f = "best_score_history" -> <<>>
          [] OTHER -> self[f] ]

\* a <= b + stagnation_delta, b possibly infinite
LeqPlusDelta(self, a, b) == b = PosInf \/ 2 * a <= 2 * b + self.stagnation_delta2

\* _dynamic_beam_adjustment
dynamic_beam_adjustment(self, current_score, current_width) ==
    IF self.prev_is_none THEN current_width
    ELSE Max2(1, IF LeqPlusDelta(self, current_score, self.prev_restart_best)
                 THEN Min2(current_width * 2, self.beam_width * self.max_beam_multiplier)
                 ELSE Max2(self.beam_width, current_width \div 2))

\* _detect_stagnation
detect_stagnation(self) ==
    LET h == self.best_score_history
    IN  Len(h) >= 2 /\ LeqPlusDelta(self, h[Len(h)], h[Len(h) - 1])

\* _apply_adaptive_restart_policy
apply_adaptive_restart_policy(self) ==
    IF detect_stagnation(self)
    THEN [self EXCEPT
            !.jump_cap = Min2(self.jump_cap + 10, Max2(60, self.jump_cap * 2)),
            !.beam_width = Min2(self.beam_width * 2,
                                self.beam_width * self.max_beam_multiplier)]
    ELSE self

\* `max(self._prev_restart_best or -float("-inf"), score)`
NextPrevBest(self, score) ==
    Max2(IF self.prev_is_none \/ self.prev_restart_best = 0 THEN PosInf
         ELSE self.prev_restart_best, score)

\* the restart pass after a candidate that passed the genre test
RestartAccepted(self, candidate) ==
    LET score == candidate.total_score
        better == score > self.best_score
    IN  [self EXCEPT
           !.best_score_history = Append(self.best_score_history, score),
           !.best_score = IF better THEN score ELSE self.best_score,
           !.best_solution = IF better THEN candidate ELSE self.best_solution,
           !.has_best = self.has_best \/ better,
           !.current_dynamic_width =
               dynamic_beam_adjustment(self, score, self.current_dynamic_width),
           !.prev_is_none = FALSE,
           !.prev_restart_best = NextPrevBest(self, score)]

\* one pass of `for r in range(restarts)`
RestartPass(I, self, candidate) ==
    IF ~ respects_genre_limit(I, candidate.scheduled_programs)
    THEN [self EXCEPT !.r = self.r + 1, !.restarts_run = self.restarts_run + 1]
    ELSE apply_adaptive_restart_policy(
             [RestartAccepted(self, candidate) EXCEPT
                 !.r = self.r + 1, !.restarts_run = self.restarts_run + 1])

\* generate_solution_with_time: one pass of the restart loop
BeyondRestart ==
    /\ alg = "beyond" /\ pc = "restarts"
    /\ dyn.r < dyn.restarts
    /\ \E candidate \in {beam_generate_solution(inst,
                              create_scheduler(dyn, Max2(1, dyn.current_dynamic_width)))} :
          dyn' = RestartPass(inst, dyn, candidate)
    /\ UNCHANGED <<inst, adv, alg, pc, time, solution, total_score, bs, beam, best_state,
                   bt_nodes, bt_depth, result>>

\* after the restart loop: the empty Solution when no restart gave one
BeyondRestartsDone ==
    /\ alg = "beyond" /\ pc = "restarts"
    /\ ~ (dyn.r < dyn.restarts)
    /\ dyn' = IF dyn.has_best THEN [dyn EXCEPT !.mult = 2]
              ELSE [dyn EXCEPT !.mult = 2, !.has_best = TRUE,
                               !.best_solution = Solution(<<>>, 0), !.best_score = 0]
    /\ pc' = "deepen"
    /\ UNCHANGED <<inst, adv, alg, time, solution, total_score, bs, beam, best_state,
                   bt_nodes, bt_depth, result>>

DeepenMore ==
    dyn.iterative_deepening /\ dyn.max_beam_multiplier > 1
    /\ dyn.mult <= dyn.max_beam_multiplier

DeepenPass(I, self, cand) ==
    IF respects_genre_limit(I, cand.scheduled_programs) /\ cand.total_score > self.best_score
    THEN [self EXCEPT !.best_score = cand.total_score, !.best_solution = cand,
                      !.mult = self.mult + 1]
    ELSE [self EXCEPT !.mult = self.mult + 1]

\* one pass of `for mult in range(2, self.max_beam_multiplier + 1)`
BeyondDeepen ==
    /\ alg = "beyond" /\ pc = "deepen"
    /\ DeepenMore
    /\ \E cand \in {beam_generate_solution(inst,
                        create_scheduler(dyn, Max2(1, dyn.beam_width * dyn.mult)))} :
          dyn' = DeepenPass(inst, dyn, cand)
    /\ UNCHANGED <<inst, adv, alg, pc, time, solution, total_score, bs, beam, best_state,
                   bt_nodes, bt_depth, result>>

BacktrackPhase(self, refined) ==
    IF refined.best_score > self.best_score
    THEN [self EXCEPT !.best_score = refined.best_score,
                      !.best_solution = Solution(refined.best_sched, refined.best_score)]
    ELSE self

\* the enhanced-backtrack phase
BeyondEnhancedBacktrack ==
    /\ alg = "beyond" /\ pc = "deepen"
    /\ ~ DeepenMore
    /\ dyn' = IF dyn.backtrack_window > 0
              THEN BacktrackPhase(dyn,
                       enhanced_backtrack(inst, dyn, dyn.best_solution.scheduled_programs,
                                          dyn.best_solution.total_score, 8))
              ELSE dyn
    /\ pc' = "local"
    /\ UNCHANGED <<inst, adv, alg, time, solution, total_score, bs, beam, best_state,
                   bt_nodes, bt_depth, result>>

LocalSearchPhase(self, found) ==
    [self EXCEPT !.best_solution = found, !.best_score = found.total_score]

\* the local-search phase and the return
BeyondLocalSearch ==
    /\ alg = "beyond" /\ pc = "local"
    /\ dyn' = IF dyn.local_search_passes > 0
              THEN LocalSearchPhase(dyn, apply_local_search(inst, dyn, dyn.best_solution))
              ELSE dyn
    /\ result' = dyn'.best_solution
    /\ pc' = "done"
    /\ UNCHANGED <<inst, adv, alg, time, solution, total_score, bs, beam, best_state,
                   bt_nodes, bt_depth>>

\* the constructor arguments tried: the defaults of __init__ and some others
BeyondParams ==
    { <<3, 30, 10, TRUE, 3, 2, 8, 2>>, <<1, 1, 0, FALSE, 1, 1, 1, 0>>,
      <<2, 30, 1, TRUE, 2, 2, 2, 1>> }

\* the constructor arguments tried: the defaults of __init__, and one
\* departure from them (on instances with one departure less)
DefaultParams == <<3, 30, 4>>
OtherParams == { <<1, 30, 4>>, <<2, 30, 4>>, <<3, 1, 4>>, <<3, 30, 0>>, <<3, 30, 1>> }

AdvancedParams == { <<1, TRUE, 1, 10, 1>>, <<3, FALSE, 30, 10, 2>>, <<0, FALSE, 0, 0, 0>> }

NoScheduler == [beam_width |-> 0, jump_cap |-> 0, backtrack_window |-> 0]
NoAdvanced == [restart |-> 0]
NoBeyond == [r |-> 0]

\* ------------------------------------------------------------ specification
InitCommon ==
    /\ solution = <<>> /\ total_score = 0
    /\ adv = NoAdvanced /\ dyn = NoBeyond
    /\ bt_nodes = <<>> /\ bt_depth = 0
    /\ result = NoResult

InitGreedy ==
    /\ (inst \in Instances \/ inst \in WideInstances)
    /\ alg = "greedy" /\ pc = "run"
    /\ time = inst.opening_time
    /\ bs = NoScheduler /\ beam = <<>> /\ best_state = [score |-> NegInf, sol |-> <<>>]
    /\ InitCommon

InitBeam ==
    /\ \/ /\ (inst \in Instances \/ inst \in WideInstances)
          /\ bs = BeamSearchScheduler(DefaultParams[1], DefaultParams[2], DefaultParams[3])
       \/ /\ inst \in SmallInstances
          /\ \E p \in OtherParams : bs = BeamSearchScheduler(p[1], p[2], p[3])
    /\ alg = "beam" /\ pc = "search"
    /\ time = 0
    /\ beam = << Node(0, inst.opening_time, <<>>) >>
    /\ best_state = [score |-> NegInf, sol |-> <<>>]
    /\ InitCommon

InitLookahead ==
    /\ (inst \in Instances \/ inst \in WideInstances)
    /\ alg = "lookahead" /\ pc = "run"
    /\ time = inst.opening_time
    /\ bs = NoScheduler /\ beam = <<>> /\ best_state = [score |-> NegInf, sol |-> <<>>]
    /\ InitCommon

InitAdvanced ==
    /\ \/ /\ inst \in SmallInstances
          /\ bs = BeamSearchSchedulerAdvanced(3, TRUE, 30, 10, 3)
       \/ /\ inst \in TinyInstances
          /\ \E p \in AdvancedParams :
                bs = BeamSearchSchedulerAdvanced(p[1], p[2], p[3], p[4], p[5])
    /\ alg = "advanced" /\ pc = "restart"
    /\ time = 0
    /\ beam = <<>> /\ best_state = [score |-> NegInf, sol |-> <<>>]
    /\ solution = <<>> /\ total_score = 0
    /\ adv = [restart |-> 1, best_solution |-> <<>>, best_score |-> NegInf,
              adaptive_beam |-> 0, adaptive_jump |-> 0]
    /\ dyn = NoBeyond
    /\ bt_nodes = <<>> /\ bt_depth = 0
    /\ result = NoResult

InitBeyond ==
    /\ inst \in TinyInstances
    /\ \E p \in BeyondParams : \E restarts \in {1, 3} :
          dyn = BeyondStart(BeyondScheduler(p[1], p[2], p[3], p[4], p[5], p[6], p[7], p[8]),
                            restarts)
    /\ alg = "beyond" /\ pc = "restarts"
    /\ time = 0
    /\ bs = NoScheduler /\ beam = <<>> /\ best_state = [score |-> NegInf, sol |-> <<>>]
    /\ solution = <<>> /\ total_score = 0
    /\ adv = NoAdvanced
    /\ bt_nodes = <<>> /\ bt_depth = 0
    /\ result = NoResult

Init == InitGreedy \/ InitLookahead \/ InitBeam \/ InitAdvanced \/ InitBeyond

\* every strategy, with the defaults of its constructor, on the instances
\* whose window holds no programme
InitEmpty ==
    /\ inst \in EmptyInstances
    /\ time = inst.opening_time
    /\ best_state = [score |-> NegInf, sol |-> <<>>]
    /\ solution = <<>> /\ total_score = 0
    /\ bt_nodes = <<>> /\ bt_depth = 0
    /\ result = NoResult
    /\ \/ /\ alg \in {"greedy", "lookahead"} /\ pc = "run"
          /\ bs = NoScheduler /\ beam = <<>> /\ adv = NoAdvanced /\ dyn = NoBeyond
       \/ /\ alg = "beam" /\ pc = "search"
          /\ bs = BeamSearchScheduler(DefaultParams[1], DefaultParams[2], DefaultParams[3])
          /\ beam = << Node(0, inst.opening_time, <<>>) >>
          /\ adv = NoAdvanced /\ dyn = NoBeyond
       \/ /\ alg = "advanced" /\ pc = "restart"
          /\ bs = BeamSearchSchedulerAdvanced(3, TRUE, 30, 10, 3)
          /\ beam = <<>>
          /\ adv = [restart |-> 1, best_solution |-> <<>>, best_score |-> NegInf,
                    adaptive_beam |-> 0, adaptive_jump |-> 0]
          /\ dyn = NoBeyond
       \/ /\ alg = "beyond" /\ pc = "restarts"
          /\ bs = NoScheduler /\ beam = <<>> /\ adv = NoAdvanced
          /\ dyn = BeyondStart(BeyondScheduler(3, 30, 10, TRUE, 3, 2, 8, 2), 3)

Next ==
    \/ GreedyStep \/ GreedyReturn
    \/ LookaheadStep \/ LookaheadReturn
    \/ BeamSearchStep \/ BeamSearchExit \/ BeamReturn
    \/ BacktrackEnter \/ BacktrackStep \/ BacktrackReturn
    \/ AdvancedRestart \/ AdvancedCoreStep \/ AdvancedCoreExit \/ AdvancedReturn
    \/ BeyondRestart \/ BeyondRestartsDone \/ BeyondDeepen
    \/ BeyondEnhancedBacktrack \/ BeyondLocalSearch

Spec == Init /\ [][Next]_vars

\* Greedy alone
NextGreedy == GreedyStep \/ GreedyReturn
SpecGreedy == InitGreedy /\ [][NextGreedy]_vars

\* GreedyLookahead alone
NextLookahead == LookaheadStep \/ LookaheadReturn
SpecLookahead == InitLookahead /\ [][NextLookahead]_vars

\* BeamSearchSchedulerAdvanced alone
NextAdvanced ==
    AdvancedRestart \/ AdvancedCoreStep \/ AdvancedCoreExit \/ AdvancedReturn
SpecAdvanced == InitAdvanced /\ [][NextAdvanced]_vars

\* BeamSearchSchedulerAdvanced with a core that may raise
NextAdvancedRaising == NextAdvanced \/ AdvancedCoreRaise
SpecAdvancedRaising == InitAdvanced /\ [][NextAdvancedRaising]_vars

\* BeyondDynamicBeamSearchSchedulerAdvanced alone
NextBeyond ==
    \/ BeyondRestart \/ BeyondRestartsDone \/ BeyondDeepen
    \/ BeyondEnhancedBacktrack \/ BeyondLocalSearch
SpecBeyond == InitBeyond /\ [][NextBeyond]_vars

\* The five strategies on the instances whose window holds no programme.
\* The backtracking of BeamSearchScheduler needs a schedule with an entry,
\* so its actions are never enabled here.  Each strategy is one sequential
\* call that takes its next step for as long as it has not returned: a run
\* either reaches the return or keeps taking steps (weak fairness of the
\* step, WF_vars(NextEmpty), with the enabling condition of the step written
\* out as pc # "done").
NextEmpty ==
    \/ GreedyStep \/ GreedyReturn
    \/ LookaheadStep \/ LookaheadReturn
    \/ BeamSearchStep \/ BeamSearchExit \/ BeamReturn
    \/ AdvancedRestart \/ AdvancedCoreStep \/ AdvancedCoreExit \/ AdvancedReturn
    \/ BeyondRestart \/ BeyondRestartsDone \/ BeyondDeepen
    \/ BeyondEnhancedBacktrack \/ BeyondLocalSearch
FairEmpty == ([]<>(pc = "done")) \/ ([]<><<NextEmpty>>_vars)
SpecEmpty == InitEmpty /\ [][NextEmpty]_vars /\ FairEmpty

\* Greedy and BeamSearchScheduler
InitGreedyBeam == InitGreedy \/ InitBeam
NextGreedyBeam ==
    \/ GreedyStep \/ GreedyReturn
    \/ BeamSearchStep \/ BeamSearchExit \/ BeamReturn
    \/ BacktrackEnter \/ BacktrackStep \/ BacktrackReturn
SpecGreedyBeam == InitGreedyBeam /\ [][NextGreedyBeam]_vars

\* BeamSearchScheduler alone
NextBeam ==
    \/ BeamSearchStep \/ BeamSearchExit \/ BeamReturn
    \/ BacktrackEnter \/ BacktrackStep \/ BacktrackReturn
SpecBeam == InitBeam /\ [][NextBeam]_vars

\* ------------------------------------------------- Validator, called alone
\* the lineups of the calls of the validator: none, one programme, two
ValidatorLineups == { <<>>, << <<0, 2>> >>, << <<0, 1>>, <<1, MaxT>> >> }

ValidatorInstances ==
    { MkInstance(x[1], x[2], x[3]) :
        x \in ValidatorLineups \X ValidatorLineups \X DevSets(MaxDev) }

\* the partial schedules of at most two entries, each a programme of the
\* instance recorded as the strategies record it
ProgramEntries(I) ==
    UNION { { GreedyEntry(I.channels[c], I.channels[c].programs[k], 1) :
                k \in 1..Len(I.channels[c].programs) } :
            c \in 1..Len(I.channels) }
PartialSchedules(I) ==
    {<<>>} \cup { <<a>> : a \in ProgramEntries(I) }
    \cup { <<a, b>> : a \in ProgramEntries(I), b \in ProgramEntries(I) }

\* the arguments of one call of Validator.is_channel_valid; the times run
\* from one minute before the grid to one minute after it
InitValidator ==
    /\ inst \in ValidatorInstances
    /\ solution \in PartialSchedules(inst)
    /\ time \in (0 - 1)..(MaxT + 1)
    /\ alg = "validator" /\ pc = "call"
    /\ total_score = 0
    /\ bs = NoScheduler /\ beam = <<>> /\ best_state = [score |-> NegInf, sol |-> <<>>]
    /\ adv = NoAdvanced /\ dyn = NoBeyond
    /\ bt_nodes = <<>> /\ bt_depth = 0
    /\ result = NoResult

\* Validator.is_channel_valid(solution, inst, channel_index, time)
ValidatorCall ==
    /\ alg = "validator" /\ pc = "call"
    /\ \E channel_index \in 1..Len(inst.channels) :
          result' = [channel_index |-> channel_index,
                     valid |-> is_channel_valid(solution, inst, channel_index, time)]
    /\ pc' = "done"
    /\ UNCHANGED <<inst, adv, dyn, alg, time, solution, total_score, bs, beam, best_state,
                   bt_nodes, bt_depth>>

SpecValidator == InitValidator /\ [][ValidatorCall]_vars

\* ------------------------------------ _apply_local_search, pass by pass
\* the call frame of _apply_local_search: the passes run, the pass called
\* last, the schedule passed to it and what it returned
LocalFrame ==
    [pass |-> 0, called |-> "none", sched |-> <<>>, cand_sched |-> <<>>, cand_score |-> 0]

\* best_solution of generate_solution_with_time after one restart
AfterRestart(I, self, candidate) ==
    IF respects_genre_limit(I, candidate.scheduled_programs)
    THEN [self EXCEPT !.best_solution = candidate, !.best_score = candidate.total_score,
                      !.has_best = TRUE]
    ELSE [self EXCEPT !.best_solution = Solution(<<>>, 0), !.best_score = 0,
                      !.has_best = TRUE]

\* the same after the enhanced-backtrack phase
AfterBacktrack(I, self) ==
    IF self.backtrack_window > 0
    THEN BacktrackPhase(self, enhanced_backtrack(I, self, self.best_solution.scheduled_programs,
                                                 self.best_solution.total_score, 8))
    ELSE self

\* two programmes on each channel, and at most one departure among the
\* genres, the genre limit, the switch penalty and the time preferences
LocalSearchInstances ==
    { MkInstance(x[1], x[2], x[3]) :
        x \in { l \in Lineups : Len(l) = 2 } \X { l \in Lineups : Len(l) = 2 }
              \X ({{}} \cup { {d} : d \in { e \in Devs : e.kind \in
                     {"genre", "max_consecutive_genre", "switch_penalty",
                      "time_preference"} } }) }

LocalSearchParams == { <<3, 30, 0, TRUE, 3, 2, 8, 2>>, <<1, 30, 1, TRUE, 2, 2, 2, 1>> }

\* _apply_local_search entered with the best_solution that
\* generate_solution_with_time holds after its restart and backtrack phases
InitLocalSearch ==
    /\ inst \in LocalSearchInstances
    /\ \E p \in LocalSearchParams :
          LET self == BeyondStart(BeyondScheduler(p[1], p[2], p[3], p[4], p[5], p[6],
                                                  p[7], p[8]), 1)
              restarted == AfterRestart(inst, self,
                               beam_generate_solution(inst,
                                   create_scheduler(self, self.beam_width)))
          IN  dyn \in { restarted @@ LocalFrame,
                        AfterBacktrack(inst, restarted) @@ LocalFrame }
    /\ solution = dyn.best_solution.scheduled_programs
    /\ total_score = dyn.best_solution.total_score
    /\ alg = "local_search" /\ pc = "replace"
    /\ time = 0
    /\ bs = NoScheduler /\ beam = <<>> /\ best_state = [score |-> NegInf, sol |-> <<>>]
    /\ adv = NoAdvanced
    /\ bt_nodes = <<>> /\ bt_depth = 0
    /\ result = NoResult

\* one pass of the loop up to the first comparison: _local_search_replace
LocalSearchReplace ==
    /\ alg = "local_search" /\ pc = "replace"
    /\ dyn.pass < dyn.local_search_passes
    /\ \E cand \in {local_search_replace(inst, solution)} :
          /\ dyn' = [dyn EXCEPT !.called = "replace", !.sched = solution,
                                !.cand_sched = cand.sched, !.cand_score = cand.score,
                                !.pass = dyn.pass + 1]
          /\ IF Adopts(cand.score, total_score)
             THEN solution' = cand.sched /\ total_score' = cand.score /\ pc' = "replace"
             ELSE UNCHANGED <<solution, total_score>> /\ pc' = "swap"
    /\ UNCHANGED <<inst, adv, alg, time, bs, beam, best_state, bt_nodes, bt_depth, result>>

\* the rest of the pass: _local_search_swap, then `continue` or `break`
LocalSearchSwap ==
    /\ alg = "local_search" /\ pc = "swap"
    /\ \E cand \in {local_search_swap(inst, solution)} :
          /\ dyn' = [dyn EXCEPT !.called = "swap", !.sched = solution,
                                !.cand_sched = cand.sched, !.cand_score = cand.score]
          /\ IF Adopts(cand.score, total_score)
             THEN solution' = cand.sched /\ total_score' = cand.score /\ pc' = "replace"
             ELSE UNCHANGED <<solution, total_score>> /\ pc' = "return"
    /\ UNCHANGED <<inst, adv, alg, time, bs, beam, best_state, bt_nodes, bt_depth, result>>

\* the return of _apply_local_search
LocalSearchReturn ==
    /\ alg = "local_search"
    /\ pc = "return" \/ (pc = "replace" /\ ~ (dyn.pass < dyn.local_search_passes))
    /\ result' = Solution(solution, total_score)
    /\ pc' = "done"
    /\ UNCHANGED <<inst, adv, dyn, alg, time, solution, total_score, bs, beam, best_state,
                   bt_nodes, bt_depth>>

NextLocalSearch == LocalSearchReplace \/ LocalSearchSwap \/ LocalSearchReturn
SpecLocalSearch == InitLocalSearch /\ [][NextLocalSearch]_vars

\* -------------------------------------- the skip tables of the constructors
SkipJumpCaps == {1, 2, 30}

InitSkip ==
    /\ inst \in SmallInstances \cup {Scenario}
    /\ \E jump_cap \in SkipJumpCaps :
          \/ alg = "beam" /\ bs = BeamSearchScheduler(3, jump_cap, 4)
          \/ alg = "advanced" /\ bs = BeamSearchSchedulerAdvanced(3, TRUE, jump_cap, 10, 3)
    /\ pc = "init"
    /\ time = inst.opening_time
    /\ beam = <<>> /\ best_state = [score |-> NegInf, sol |-> <<>>]
    /\ solution = <<>> /\ total_score = 0
    /\ adv = NoAdvanced /\ dyn = NoBeyond
    /\ bt_nodes = <<>> /\ bt_depth = 0
    /\ result = NoResult

\* BeamSearchScheduler.__init__: interesting_times and skip_table
BeamInitSkipTable ==
    /\ alg = "beam" /\ pc = "init"
    /\ result' = [interesting_times |-> build_interesting_times(inst),
                  skip_table |-> build_skip_table(inst, bs.jump_cap)]
    /\ pc' = "built"
    /\ UNCHANGED <<inst, adv, dyn, alg, time, solution, total_score, bs, beam, best_state,
                   bt_nodes, bt_depth>>

\* BeamSearchSchedulerAdvanced.__init__: interesting_times and skip_table
AdvancedInitSkipTable ==
    /\ alg = "advanced" /\ pc = "init"
    /\ result' = [interesting_times |-> AdvancedInterestingTimes(inst),
                  skip_table |-> [t \in inst.opening_time..(inst.closing_time - 1) |->
                                     AdvancedSkipEntry(inst, bs, t)]]
    /\ pc' = "built"
    /\ UNCHANGED <<inst, adv, dyn, alg, time, solution, total_score, bs, beam, best_state,
                   bt_nodes, bt_depth>>

NextSkip == BeamInitSkipTable \/ AdvancedInitSkipTable
SpecSkip == InitSkip /\ [][NextSkip]_vars

\* ------------------- generate_solution_with_time with schedulers that raise
\* the restart pass whose `scheduler.generate_solution()` raised and left
\* the loop at once
RestartRaised_Aborts(self) ==
    [self EXCEPT !.r = self.restarts, !.restarts_run = self.restarts_run + 1]

\* the restart pass whose `scheduler.generate_solution()` raised:
\* candidate = None, `continue`
RestartRaised(self) ==
    [self EXCEPT !.r = self.r + 1, !.restarts_run = self.restarts_run + 1]

\* the runs whose scheduler raises: restart passes by r, deepening runs by mult
RaisingPlans ==
    { [restarts |-> {}, deepen |-> 2..3], [restarts |-> {0}, deepen |-> {}],
      [restarts |-> 0..7, deepen |-> {}], [restarts |-> 0..7, deepen |-> 2..3] }

InitBeyondRaising ==
    /\ inst \in TinyInstances
    /\ \E p \in BeyondParams : \E restarts \in {1, 3} : \E plan \in RaisingPlans :
          dyn = BeyondStart(BeyondScheduler(p[1], p[2], p[3], p[4], p[5], p[6], p[7], p[8]),
                            restarts) @@ [raising |-> plan]
    /\ alg = "beyond" /\ pc = "restarts"
    /\ time = 0
    /\ bs = NoScheduler /\ beam = <<>> /\ best_state = [score |-> NegInf, sol |-> <<>>]
    /\ solution = <<>> /\ total_score = 0
    /\ adv = NoAdvanced
    /\ bt_nodes = <<>> /\ bt_depth = 0
    /\ result = NoResult

\* a restart pass whose scheduler returns
BeyondRestartReturns ==
    /\ dyn.r \notin dyn.raising.restarts
    /\ BeyondRestart

\* a restart pass whose scheduler raises
BeyondRestartRaises ==
    /\ alg = "beyond" /\ pc = "restarts"
    /\ dyn.r < dyn.restarts
    /\ dyn.r \in dyn.raising.restarts
    /\ dyn' = RestartRaised(dyn)
    /\ UNCHANGED <<inst, adv, alg, pc, time, solution, total_score, bs, beam, best_state,
                   bt_nodes, bt_depth, result>>

\* a deepening run whose scheduler returns
BeyondDeepenReturns ==
    /\ dyn.mult \notin dyn.raising.deepen
    /\ BeyondDeepen

\* a deepening run whose scheduler raises: the handler prints, the loop goes on
BeyondDeepenRaises ==
    /\ alg = "beyond" /\ pc = "deepen"
    /\ DeepenMore
    /\ dyn.mult \in dyn.raising.deepen
    /\ dyn' = [dyn EXCEPT !.mult = dyn.mult + 1]
    /\ UNCHANGED <<inst, adv, alg, pc, time, solution, total_score, bs, beam, best_state,
                   bt_nodes, bt_depth, result>>

NextBeyondRaising ==
    \/ BeyondRestartReturns \/ BeyondRestartRaises \/ BeyondRestartsDone
    \/ BeyondDeepenReturns \/ BeyondDeepenRaises
    \/ BeyondEnhancedBacktrack \/ BeyondLocalSearch
SpecBeyondRaising == InitBeyondRaising /\ [][NextBeyondRaising]_vars

\* ------------------------- generate_solution_with_time under a time limit
\* dyn.expired: a test `time.time() > deadline` of this call has been true.
\* Each test reads the clock: it may find the deadline passed at any test,
\* and finds it passed at every test after one that did.  The tests inside
\* the passes of the local search are not modelled: a local search that
\* begins before the deadline runs to its end.
InitBeyondDeadline ==
    /\ inst \in TinyInstances
    /\ \E p \in BeyondParams : \E restarts \in {1, 3} :
          dyn = BeyondStart(BeyondScheduler(p[1], p[2], p[3], p[4], p[5], p[6], p[7], p[8]),
                            restarts) @@ [expired |-> FALSE]
    /\ alg = "beyond" /\ pc = "restarts"
    /\ time = 0
    /\ bs = NoScheduler /\ beam = <<>> /\ best_state = [score |-> NegInf, sol |-> <<>>]
    /\ solution = <<>> /\ total_score = 0
    /\ adv = NoAdvanced
    /\ bt_nodes = <<>> /\ bt_depth = 0
    /\ result = NoResult

\* the head of a restart pass: the scheduler is created and started
TimedRestartBegin ==
    /\ alg = "beyond" /\ pc = "restarts"
    /\ dyn.r < dyn.restarts
    /\ pc' = "restart"
    /\ UNCHANGED <<inst, adv, dyn, alg, time, solution, total_score, bs, beam, best_state,
                   bt_nodes, bt_depth, result>>

\* the rest of the pass; the deadline test stands at its end, behind the
\* `continue` of a rejected candidate
TimedRestartEnd ==
    /\ alg = "beyond" /\ pc = "restart"
    /\ \E candidate \in {beam_generate_solution(inst,
                              create_scheduler(dyn, Max2(1, dyn.current_dynamic_width)))} :
       \E late \in {dyn.expired, TRUE} :
          dyn' = IF late /\ respects_genre_limit(inst, candidate.scheduled_programs)
                 THEN [RestartPass(inst, dyn, candidate) EXCEPT
                          !.expired = TRUE, !.r = dyn.restarts]
                 ELSE RestartPass(inst, dyn, candidate)
    /\ pc' = "restarts"
    /\ UNCHANGED <<inst, adv, alg, time, solution, total_score, bs, beam, best_state,
                   bt_nodes, bt_depth, result>>

\* the head of a deepening pass: the deadline test, then the run begins
TimedDeepenBegin ==
    /\ alg = "beyond" /\ pc = "deepen"
    /\ DeepenMore
    /\ \E late \in {dyn.expired, TRUE} :
          IF late
          THEN /\ dyn' = [dyn EXCEPT !.expired = TRUE, !.mult = dyn.max_beam_multiplier + 1]
               /\ pc' = "deepen"
          ELSE /\ pc' = "deepening"
               /\ UNCHANGED dyn
    /\ UNCHANGED <<inst, adv, alg, time, solution, total_score, bs, beam, best_state,
                   bt_nodes, bt_depth, result>>

TimedDeepenEnd ==
    /\ alg = "beyond" /\ pc = "deepening"
    /\ \E cand \in {beam_generate_solution(inst,
                        create_scheduler(dyn, Max2(1, dyn.beam_width * dyn.mult)))} :
          dyn' = DeepenPass(inst, dyn, cand)
    /\ pc' = "deepen"
    /\ UNCHANGED <<inst, adv, alg, time, solution, total_score, bs, beam, best_state,
                   bt_nodes, bt_depth, result>>

\* the enhanced-backtrack phase begins: _enhanced_backtrack takes no
\* deadline and nothing tests one before it; it refills windows when the
\* schedule has an entry
TimedBacktrackBegin ==
    /\ alg = "beyond" /\ pc = "deepen"
    /\ ~ DeepenMore
    /\ pc' = IF dyn.backtrack_window > 0 /\ dyn.best_solution.scheduled_programs # <<>>
             THEN "refill" ELSE "local"
    /\ UNCHANGED <<inst, adv, dyn, alg, time, solution, total_score, bs, beam, best_state,
                   bt_nodes, bt_depth, result>>

TimedBacktrackEnd ==
    /\ alg = "beyond" /\ pc = "refill"
    /\ dyn' = BacktrackPhase(dyn,
                  enhanced_backtrack(inst, dyn, dyn.best_solution.scheduled_programs,
                                     dyn.best_solution.total_score, 8))
    /\ pc' = "local"
    /\ UNCHANGED <<inst, adv, alg, time, solution, total_score, bs, beam, best_state,
                   bt_nodes, bt_depth, result>>

\* the local-search phase begins: the deadline test of the first pass
TimedLocalBegin ==
    /\ alg = "beyond" /\ pc = "local"
    /\ IF dyn.local_search_passes > 0
       THEN \E late \in {dyn.expired, TRUE} :
               IF late
               THEN /\ dyn' = [dyn EXCEPT !.expired = TRUE]
                    /\ result' = dyn.best_solution
                    /\ pc' = "done"
               ELSE /\ pc' = "probing"
                    /\ UNCHANGED <<dyn, result>>
       ELSE /\ result' = dyn.best_solution
            /\ pc' = "done"
            /\ UNCHANGED dyn
    /\ UNCHANGED <<inst, adv, alg, time, solution, total_score, bs, beam, best_state,
                   bt_nodes, bt_depth>>

TimedLocalEnd ==
    /\ alg = "beyond" /\ pc = "probing"
    /\ dyn' = LocalSearchPhase(dyn, apply_local_search(inst, dyn, dyn.best_solution))
    /\ result' = dyn'.best_solution
    /\ pc' = "done"
    /\ UNCHANGED <<inst, adv, alg, time, solution, total_score, bs, beam, best_state,
                   bt_nodes, bt_depth>>

NextBeyondDeadline ==
    \/ TimedRestartBegin \/ TimedRestartEnd \/ BeyondRestartsDone
    \/ TimedDeepenBegin \/ TimedDeepenEnd
    \/ TimedBacktrackBegin \/ TimedBacktrackEnd
    \/ TimedLocalBegin \/ TimedLocalEnd
SpecBeyondDeadline == InitBeyondDeadline /\ [][NextBeyondDeadline]_vars

\* ----------------------- generate_solution_with_time, called twice in a row
\* what the caller holds: the number of the call, the search parameters of
\* the object before the first call, and the first call's Solution
Caller(self) ==
    [call |-> 1,
     before |-> [beam_width |-> self.beam_width, jump_cap |-> self.jump_cap,
                 prev_is_none |-> self.prev_is_none,
                 prev_restart_best |-> self.prev_restart_best],
     first |-> NoResult]

InitBeyondTwice ==
    /\ inst \in TinyInstances
    /\ \E p \in BeyondParams : \E restarts \in {1, 3} :
          dyn = BeyondStart(BeyondScheduler(p[1], p[2], p[3], p[4], p[5], p[6], p[7], p[8]),
                            restarts)
                @@ Caller(BeyondScheduler(p[1], p[2], p[3], p[4], p[5], p[6], p[7], p[8]))
    /\ alg = "beyond" /\ pc = "restarts"
    /\ time = 0
    /\ bs = NoScheduler /\ beam = <<>> /\ best_state = [score |-> NegInf, sol |-> <<>>]
    /\ solution = <<>> /\ total_score = 0
    /\ adv = NoAdvanced
    /\ bt_nodes = <<>> /\ bt_depth = 0
    /\ result = NoResult

\* the second call on the same object, with the same argument
BeyondSecondCall ==
    /\ alg = "beyond" /\ pc = "done"
    /\ dyn.call = 1
    /\ dyn' = [BeyondStart(dyn, dyn.restarts) EXCEPT !.call = 2, !.first = result]
    /\ pc' = "restarts"
    /\ UNCHANGED <<inst, adv, alg, time, solution, total_score, bs, beam, best_state,
                   bt_nodes, bt_depth, result>>

NextBeyondTwice == NextBeyond \/ BeyondSecondCall
SpecBeyondTwice == InitBeyondTwice /\ [][NextBeyondTwice]_vars

\* ------------------------------- the constructors, on degenerate arguments
\* the values tried for beam_width, jump_cap and backtrack_window
ConstructorArgs == {-2, -1, 0, 1, 3}

\* adv holds the arguments of the call
InitConstruct ==
    /\ inst \in {Scenario}
    /\ alg \in {"beam", "advanced", "beyond"}
    /\ adv \in [beam_width : ConstructorArgs, jump_cap : ConstructorArgs,
                backtrack_window : ConstructorArgs]
    /\ pc = "new"
    /\ time = inst.opening_time
    /\ bs = NoScheduler /\ dyn = NoBeyond
    /\ beam = <<>> /\ best_state = [score |-> NegInf, sol |-> <<>>]
    /\ solution = <<>> /\ total_score = 0
    /\ bt_nodes = <<>> /\ bt_depth = 0
    /\ result = NoResult

\* BeamSearchScheduler.__init__
BeamConstruct ==
    /\ alg = "beam" /\ pc = "new"
    /\ bs' = BeamSearchScheduler(adv.beam_width, adv.jump_cap, adv.backtrack_window)
    /\ result' = [interesting_times |-> build_interesting_times(inst),
                  skip_table |-> build_skip_table(inst, bs'.jump_cap)]
    /\ pc' = "constructed"
    /\ UNCHANGED <<inst, adv, dyn, alg, time, solution, total_score, beam, best_state,
                   bt_nodes, bt_depth>>

\* BeamSearchSchedulerAdvanced.__init__
AdvancedConstruct ==
    /\ alg = "advanced" /\ pc = "new"
    /\ bs' = BeamSearchSchedulerAdvanced(adv.beam_width, TRUE, adv.jump_cap,
                                         adv.backtrack_window, 3)
    /\ result' = [interesting_times |-> AdvancedInterestingTimes(inst),
                  skip_table |-> [t \in inst.opening_time..(inst.closing_time - 1) |->
                                     AdvancedSkipEntry(inst, bs', t)]]
    /\ pc' = "constructed"
    /\ UNCHANGED <<inst, adv, dyn, alg, time, solution, total_score, beam, best_state,
                   bt_nodes, bt_depth>>

\* BeyondDynamicBeamSearchSchedulerAdvanced.__init__ and
\* _validate_constructor_params
BeyondConstruct ==
    /\ alg = "beyond" /\ pc = "new"
    /\ dyn' = BeyondScheduler(adv.beam_width, adv.jump_cap, adv.backtrack_window,
                              TRUE, 3, 2, 8, 2)
    /\ pc' = "constructed"
    /\ UNCHANGED <<inst, adv, alg, time, solution, total_score, bs, beam, best_state,
                   bt_nodes, bt_depth, result>>

NextConstruct == BeamConstruct \/ AdvancedConstruct \/ BeyondConstruct
SpecConstruct == InitConstruct /\ [][NextConstruct]_vars

\* ------------------------------------- UpperBoundGreedy.compute_upper_bound
RECURSIVE SumProgramScores(_, _)
SumProgramScores(programs, n) ==
    IF n = 0 THEN 0 ELSE SumProgramScores(programs, n - 1) + programs[n].score

RECURSIVE SumChannelScores(_, _)
SumChannelScores(channels, n) ==
    IF n = 0 THEN 0
    ELSE SumChannelScores(channels, n - 1)
         + SumProgramScores(channels[n].programs, Len(channels[n].programs))

RECURSIVE SumPreferenceBonuses(_, _)
SumPreferenceBonuses(time_preferences, n) ==
    IF n = 0 THEN 0
    ELSE SumPreferenceBonuses(time_preferences, n - 1) + time_preferences[n].bonus

\* compute_upper_bound: every programme's score and every preference's
\* bonus, each once
compute_upper_bound(I) ==
    SumChannelScores(I.channels, Len(I.channels))
    + SumPreferenceBonuses(I.time_preferences, Len(I.time_preferences))

\* the largest bonus of a time preference tried
MaxBonus == 2

\* instances with one time preference for "news" over any interval of the
\* grid, every programme "news" with score 1
PreferenceInstances ==
    { InstanceData(0, MaxT, 1, 3, 0, 0, <<>>,
                   << [start |-> x[3][1], end |-> x[3][2], preferred_genre |-> "news",
                       bonus |-> x[4]] >>,
                   << MkChannel(1, x[1], {}), MkChannel(2, x[2], {}) >>) :
        x \in Lineups \X Lineups \X Intervals \X (1..MaxBonus) }

InitGreedyBound ==
    /\ inst \in PreferenceInstances
    /\ alg = "greedy" /\ pc = "run"
    /\ time = inst.opening_time
    /\ bs = NoScheduler /\ beam = <<>> /\ best_state = [score |-> NegInf, sol |-> <<>>]
    /\ InitCommon

SpecGreedyBound == InitGreedyBound /\ [][NextGreedy]_vars

\* ------------------------- the refinement methods, each called on its own
\* the schedule the methods are given: what _beam_search returns for a
\* beam of the same width
RefineInput(I, beam_width) ==
    beam_generate_solution(I, BeamSearchScheduler(beam_width, 30, 0))

\* the beam widths tried
RefineBeams == {1, 3}

RefineMethods ==
    {"_backtrack_improve", "_refill_window", "_enhanced_backtrack",
     "_local_search_replace", "_local_search_swap"}

\* the list the method is called on: the schedule itself, or for the call
\* _refill_window makes, `base`: the prefix before the window and `window`
\* padding entries
RefineList(I, call) ==
    LET sched == RefineInput(I, call.beam_width).scheduled_programs
    IN  IF call.method = "_refill_window"
        THEN Take(sched, Max2(0, Len(sched) - call.window))
             \o [j \in 1..call.window |-> Pad]
        ELSE sched

RefineScore(I, call) ==
    IF call.method = "_refill_window" THEN score_full_schedule(I, RefineList(I, call))
    ELSE RefineInput(I, call.beam_width).total_score

\* the windows tried for _backtrack_improve and for backtrack_window
RefineWindows == {1, 2}

\* adv holds the method called and its window; solution and total_score
\* are the caller's list and score
InitRefine ==
    /\ (inst \in LocalSearchInstances \/ inst \in WideInstances)
    /\ adv \in [method : RefineMethods, window : RefineWindows, beam_width : RefineBeams]
    /\ bs = BeamSearchScheduler(adv.beam_width, 30, adv.window)
    /\ dyn = BeyondScheduler(adv.beam_width, 30, adv.window, TRUE, 3, 2, 8, 2)
    /\ solution = RefineList(inst, adv)
    /\ total_score = RefineScore(inst, adv)
    /\ alg = "refine" /\ pc = "call"
    /\ time = 0
    /\ beam = <<>> /\ best_state = [score |-> NegInf, sol |-> <<>>]
    /\ bt_nodes = <<>> /\ bt_depth = 0
    /\ result = NoResult

RefineFrame ==
    /\ pc' = "returned"
    /\ UNCHANGED <<inst, adv, dyn, alg, time, solution, total_score, bs, beam, best_state,
                   bt_nodes, bt_depth>>

BacktrackImproveCall ==
    /\ alg = "refine" /\ pc = "call" /\ adv.method = "_backtrack_improve"
    /\ \E r \in {backtrack_improve(inst, bs, solution, total_score, adv.window)} :
          result' = Solution(r.sol, r.score)
    /\ RefineFrame

\* _refill_window: `bs._backtrack_improve(base, bs._score_full_schedule(base), window)`
RefillWindowCall ==
    /\ alg = "refine" /\ pc = "call" /\ adv.method = "_refill_window"
    /\ \E r \in {RefillImproved(inst, create_scheduler(dyn, Max2(1, Min2(dyn.beam_width, 6))),
                                solution, adv.window)} :
          result' = Solution(r.sol, r.score)
    /\ RefineFrame

EnhancedBacktrackCall ==
    /\ alg = "refine" /\ pc = "call" /\ adv.method = "_enhanced_backtrack"
    /\ \E r \in {enhanced_backtrack(inst, dyn, solution, total_score, 6)} :
          result' = Solution(r.best_sched, r.best_score)
    /\ RefineFrame

LocalSearchReplaceCall ==
    /\ alg = "refine" /\ pc = "call" /\ adv.method = "_local_search_replace"
    /\ \E r \in {local_search_replace(inst, solution)} :
          result' = Solution(r.sched, r.score)
    /\ RefineFrame

LocalSearchSwapCall ==
    /\ alg = "refine" /\ pc = "call" /\ adv.method = "_local_search_swap"
    /\ \E r \in {local_search_swap(inst, solution)} :
          result' = Solution(r.sched, r.score)
    /\ RefineFrame

NextRefine ==
    \/ BacktrackImproveCall \/ RefillWindowCall \/ EnhancedBacktrackCall
    \/ LocalSearchReplaceCall \/ LocalSearchSwapCall
SpecRefine == InitRefine /\ [][NextRefine]_vars

\* ------------------------------ _beam_search and _beam_search_core alone
\* the beam widths tried for _beam_search (no backtracking follows)
SearchParams == { <<1, 30, 0>>, <<2, 30, 0>>, <<3, 30, 0>> }

InitSearch ==
    \/ /\ inst \in SmallInstances
       /\ \E p \in SearchParams : bs = BeamSearchScheduler(p[1], p[2], p[3])
       /\ alg = "beam" /\ pc = "search"
       /\ time = 0
       /\ beam = << Node(0, inst.opening_time, <<>>) >>
       /\ best_state = [score |-> NegInf, sol |-> <<>>]
       /\ InitCommon
    \/ InitAdvanced

NextSearch ==
    \/ BeamSearchStep \/ BeamSearchExit \/ BeamReturn
    \/ AdvancedRestart \/ AdvancedCoreStep \/ AdvancedCoreExit \/ AdvancedReturn
SpecSearch == InitSearch /\ [][NextSearch]_vars

\* ------------------------- _beam_search with a switch penalty above a score
\* the switch penalty of PenaltyInstances: more than any programme's score
HighPenalty == 3

\* the instances with at most one departure, under a switch penalty that
\* makes the fitness of a change of channel negative
PenaltyInstances ==
    { [I EXCEPT !.switch_penalty = HighPenalty] : I \in InstancesOf(1) }

InitSearchPenalty ==
    /\ inst \in PenaltyInstances
    /\ \E p \in SearchParams : bs = BeamSearchScheduler(p[1], p[2], p[3])
    /\ alg = "beam" /\ pc = "search"
    /\ time = 0
    /\ beam = << Node(0, inst.opening_time, <<>>) >>
    /\ best_state = [score |-> NegInf, sol |-> <<>>]
    /\ InitCommon

NextSearchPenalty == BeamSearchStep \/ BeamSearchExit \/ BeamReturn
SpecSearchPenalty == InitSearchPenalty /\ [][NextSearchPenalty]_vars

\* ----------------------- the Greedy pass and _beam_search, run to their end
InitTerminate ==
    /\ (inst \in SmallInstances \/ inst \in WideInstances)
    /\ \/ /\ alg = "greedy" /\ pc = "run"
          /\ bs = NoScheduler /\ beam = <<>>
       \/ /\ alg = "beam" /\ pc = "search"
          /\ \E p \in SearchParams : bs = BeamSearchScheduler(p[1], p[2], p[3])
          /\ beam = << Node(0, inst.opening_time, <<>>) >>
    /\ time = inst.opening_time
    /\ best_state = [score |-> NegInf, sol |-> <<>>]
    /\ InitCommon

NextTerminate ==
    \/ GreedyStep \/ GreedyReturn
    \/ BeamSearchStep \/ BeamSearchExit \/ BeamReturn

\* both loops are plain sequential code: a step that can be taken is taken
FairTerminate == ([]<>(pc = "done")) \/ ([]<><<NextTerminate>>_vars)
SpecTerminate == InitTerminate /\ [][NextTerminate]_vars /\ FairTerminate

\* ------------------- _local_search_replace where one programme scores high
\* a programme score above misorder_penalty
BigScore == 2000

\* the wide instances with channel 2 shut out of the first minute by a
\* priority block, and its first programme scoring BigScore
ReplaceInstances ==
    { [I EXCEPT !.priority_blocks = << [start |-> 0, end |-> 1, allowed_channels |-> {1}] >>,
                !.channels[2].programs[1].score = BigScore] :
        I \in { J \in WideInstances : J.channels[2].programs # <<>> } }

InitReplace ==
    /\ inst \in ReplaceInstances
    /\ adv \in [method : {"_local_search_replace"}, window : {1}, beam_width : RefineBeams]
    /\ bs = BeamSearchScheduler(adv.beam_width, 30, adv.window)
    /\ dyn = BeyondScheduler(adv.beam_width, 30, adv.window, TRUE, 3, 2, 8, 2)
    /\ solution = RefineList(inst, adv)
    /\ total_score = RefineScore(inst, adv)
    /\ alg = "refine" /\ pc = "call"
    /\ time = 0
    /\ beam = <<>> /\ best_state = [score |-> NegInf, sol |-> <<>>]
    /\ bt_nodes = <<>> /\ bt_depth = 0
    /\ result = NoResult

SpecReplace == InitReplace /\ [][LocalSearchReplaceCall]_vars

\* -------------------- local search where the scores outweigh the penalties
\* programme scores above same_genre_chain_penalty and genre_diversity_bonus
LowScore == 20
HighScore == 40

\* max_consecutive_genre 2, two programmes on channel 1 and one on channel
\* 2; one programme is a film scoring LowScore, the others are news scoring
\* HighScore
GenreInstances ==
    { InstanceData(0, MaxT, 1, 2, 0, 0, <<>>, <<>>,
        [c \in 1..2 |->
            LET plain == MkChannel(c, x[c], {Dev("genre", x[3], 0)})
            IN  [plain EXCEPT !.programs =
                    [k \in 1..Len(plain.programs) |->
                        [plain.programs[k] EXCEPT !.score =
                            IF plain.programs[k].genre = "film"
                            THEN LowScore ELSE HighScore]]]]) :
        x \in { l \in Lineups : Len(l) = 2 } \X { l \in Lineups : Len(l) = 1 } \X (1..3) }

InitGenre ==
    /\ inst \in GenreInstances
    /\ \E p \in LocalSearchParams :
          LET self == BeyondStart(BeyondScheduler(p[1], p[2], p[3], p[4], p[5], p[6],
                                                  p[7], p[8]), 1)
              restarted == AfterRestart(inst, self,
                               beam_generate_solution(inst,
                                   create_scheduler(self, self.beam_width)))
          IN  dyn \in { restarted @@ LocalFrame,
                        AfterBacktrack(inst, restarted) @@ LocalFrame }
    /\ solution = dyn.best_solution.scheduled_programs
    /\ total_score = dyn.best_solution.total_score
    /\ alg = "local_search" /\ pc = "replace"
    /\ time = 0
    /\ bs = NoScheduler /\ beam = <<>> /\ best_state = [score |-> NegInf, sol |-> <<>>]
    /\ adv = NoAdvanced
    /\ bt_nodes = <<>> /\ bt_depth = 0
    /\ result = NoResult

SpecGenre == InitGenre /\ [][NextLocalSearch]_vars

\* ------------------------- the restart loop where a wider beam scores more
\* constructor arguments with a narrow beam: beam_width, jump_cap,
\* backtrack_window, iterative_deepening, max_beam_multiplier, restarts_min,
\* restarts_max, local_search_passes
WidenParams == { <<1, 30, 0, TRUE, 2, 1, 4, 1>>, <<1, 30, 0, TRUE, 4, 1, 4, 0>>,
                 <<2, 30, 1, FALSE, 3, 1, 4, 1>> }
WidenRestarts == 4

\* the plain instances under a switch penalty that makes fitness negative
WidenInstances == { [I EXCEPT !.switch_penalty = HighPenalty] : I \in TinyInstances }

\* generate_solution_with_time(WidenRestarts); `constructed` keeps the
\* beam_width the constructor stored
InitWiden ==
    /\ inst \in WidenInstances
    /\ \E p \in WidenParams :
          LET self == BeyondScheduler(p[1], p[2], p[3], p[4], p[5], p[6], p[7], p[8])
          IN  dyn = BeyondStart(self @@ [constructed |-> self.beam_width], WidenRestarts)
    /\ alg = "beyond" /\ pc = "restarts"
    /\ time = 0
    /\ bs = NoScheduler /\ beam = <<>> /\ best_state = [score |-> NegInf, sol |-> <<>>]
    /\ solution = <<>> /\ total_score = 0
    /\ adv = NoAdvanced
    /\ bt_nodes = <<>> /\ bt_depth = 0
    /\ result = NoResult

SpecWiden == InitWiden /\ [][NextBeyond]_vars

\* ------------------------------- _local_search_swap on any valid schedule
\* the schedules of at most MaxSwapLen entries of positive length, sorted by
\* start and pairwise non-overlapping, each entry a programme of the instance
MaxSwapLen == 3

RECURSIVE SortedSchedules(_, _)
SortedSchedules(I, n) ==
    IF n = 0 THEN {<<>>}
    ELSE LET shorter == SortedSchedules(I, n - 1)
         IN  shorter \cup
             { Append(sa[1], sa[2]) : sa \in
                 { x \in shorter \X ProgramEntries(I) :
                     /\ Len(x[1]) = n - 1
                     /\ x[2].start < x[2].end
                     /\ x[1] # <<>> => Last(x[1]).end <= x[2].start } }

SwapInputs(I) == SortedSchedules(I, MaxSwapLen)

InitSwap ==
    /\ inst \in LocalSearchInstances
    /\ solution \in SwapInputs(inst)
    /\ adv = [method |-> "_local_search_swap", window |-> 0, beam_width |-> 3]
    /\ bs = BeamSearchScheduler(3, 30, 0)
    /\ dyn = BeyondScheduler(3, 30, 0, TRUE, 3, 2, 8, 2)
    /\ total_score = dyn_score_full_schedule(inst, solution)
    /\ alg = "refine" /\ pc = "call"
    /\ time = 0
    /\ beam = <<>> /\ best_state = [score |-> NegInf, sol |-> <<>>]
    /\ bt_nodes = <<>> /\ bt_depth = 0
    /\ result = NoResult

SpecSwap == InitSwap /\ [][LocalSearchSwapCall]_vars

\* ------------------------------------------------------------------ claims
Returned == pc = "done" /\ ~ result.raised
Entries == result.scheduled_programs

\* sorted by start, starts strictly increasing, no two neighbours overlap
SortedNoOverlap(s) ==
    \A i \in 1..(Len(s) - 1) :
        s[i].start < s[i + 1].start /\ s[i].end <= s[i + 1].start

\* C1: the schedule Greedy returns, and the schedule BeamSearchScheduler has
\* after _beam_search and returns after _backtrack_improve, is sorted by
\* start with strictly increasing starts, and neighbours do not overlap.
C1_SortedNoOverlap ==
    /\ (Returned /\ alg \in {"greedy", "beam"}) => SortedNoOverlap(Entries)
    /\ (alg = "beam" /\ pc \in {"searched", "backtrack"}) => SortedNoOverlap(solution)

\* a Beam Search run whose backtracking replaced a schedule of two entries or more
C1_Witness ==
    /\ Returned /\ alg = "beam"
    /\ Len(Entries) >= 2 /\ Len(solution) >= 2
    /\ Entries # solution

\* C2 (as claimed): a non-empty schedule Greedy returns starts no earlier
\* than opening_time and ends no later than closing_time.
C2_GreedyInsideWindow ==
    (Returned /\ alg = "greedy" /\ Entries # <<>>) =>
        /\ Entries[1].start >= inst.opening_time
        /\ Last(Entries).end <= inst.closing_time

\* the decision times BeamSearchScheduler has reached: the nodes of the beam
\* and of the backtracking frontier
CallTimes ==
    { beam[j].time : j \in 1..Len(beam) }
    \cup { bt_nodes[j].time : j \in 1..Len(bt_nodes) }

\* what C3 says of one list of options
SegmentOptionsOk(I, current_time, prog, opts) ==
    /\ Len(opts) <= SEG_CAP
    /\ \A j \in 1..Len(opts) :
          /\ opts[j][1] = Max2(Max2(current_time, prog.start), I.opening_time)
          /\ opts[j][1] + I.min_duration <= opts[j][2]
          /\ opts[j][2] <= Min2(prog.end, I.closing_time)

\* C3: every (seg_start, seg_end) that _segment_options(current_time, prog)
\* returns has seg_start = max(current_time, prog.start, opening_time) and
\* seg_start + min_duration <= seg_end <= min(prog.end, closing_time), at
\* most SEG_CAP options are returned, and so every entry of a schedule
\* BeamSearchScheduler returns lies inside the operating window and lasts
\* at least min_duration.
C3_SegmentsInsideWindow ==
    /\ alg = "beam" =>
          \A t \in CallTimes : \A prog \in AllPrograms(inst) :
              SegmentOptionsOk(inst, t, prog, segment_options(inst, t, prog))
    /\ (Returned /\ alg = "beam") =>
          \A i \in 1..Len(Entries) :
              /\ inst.opening_time <= Entries[i].start
              /\ Entries[i].end <= inst.closing_time
              /\ Entries[i].end - Entries[i].start >= inst.min_duration

\* a returned Beam Search schedule under min_duration 2 with an entry cut
\* short of its programme's end
C3_Witness ==
    /\ Returned /\ alg = "beam" /\ inst.min_duration = 2
    /\ \E i \in 1..Len(Entries) :
          Entries[i].end < get_program_by_unique_id(inst, Entries[i].unique_program_id).end

\* C4 (as claimed): the schedule GreedyLookahead returns is sorted by start
\* with strictly increasing starts, and neighbours do not overlap.
C4_LookaheadSortedNoOverlap ==
    (Returned /\ alg = "lookahead") => SortedNoOverlap(Entries)

\* the genre of the programme an entry airs
EntryGenre(I, entry) == get_program_by_unique_id(I, entry.unique_program_id).genre

\* every run of consecutive entries sharing a genre is shorter than the limit
RunsBelowLimit(I, s) ==
    \A i \in 1..Len(s) : \A j \in i..Len(s) :
        (\A k \in i..j : EntryGenre(I, s[k]) = EntryGenre(I, s[i]))
            => j - i + 1 <= I.max_consecutive_genre - 1

\* C5 (as claimed): in a schedule returned by Greedy or BeamSearchScheduler,
\* for every max_consecutive_genre >= 1, every maximal run of consecutive
\* entries sharing a genre has at most max_consecutive_genre - 1 entries,
\* the run formed by the first entry on an empty schedule included.
C5_RunsNeverReachLimit ==
    (Returned /\ alg \in {"greedy", "beam"}) => RunsBelowLimit(inst, Entries)

\* C6 (as claimed): in a schedule returned by Greedy or BeamSearchScheduler,
\* every entry whose aired interval [start, end) intersects a priority block
\* [block.start, block.end) is on a channel the block allows.
C6_PriorityBlocksRespected ==
    (Returned /\ alg \in {"greedy", "beam"}) =>
        \A i \in 1..Len(Entries) : \A b \in 1..Len(inst.priority_blocks) :
            (/\ inst.priority_blocks[b].start < Entries[i].end
             /\ Entries[i].start < inst.priority_blocks[b].end)
                => Entries[i].channel_id \in inst.priority_blocks[b].allowed_channels

\* C7: in a schedule returned by Greedy or BeamSearchScheduler every entry
\* after the first starts at least min_duration after the start of the
\* entry before it.
C7_DwellBetweenStarts ==
    (Returned /\ alg \in {"greedy", "beam"}) =>
        \A i \in 1..(Len(Entries) - 1) :
            Entries[i + 1].start >= Entries[i].start + inst.min_duration

\* a Greedy schedule of two entries under min_duration 2
C7_Witness ==
    /\ Returned /\ alg = "greedy"
    /\ Len(Entries) >= 2 /\ inst.min_duration = 2

\* C8 (as claimed): on the boundary scenario Greedy returns A[0,30) then
\* B[30,60) with total_score 20.
C8_ScenarioAsClaimed ==
    (Returned /\ alg = "greedy" /\ inst = Scenario) =>
        /\ Entries = << Schedule(1, 11, 0, 30, 10, 11), Schedule(1, 12, 30, 60, 10, 12) >>
        /\ result.total_score = 20

\* C8 (amended): on the boundary scenario Greedy returns the single entry
\* A[0,30) with total_score 10, and with max_consecutive_genre = 2 no
\* schedule Greedy returns has two neighbouring entries of one genre.
C8_ScenarioOneEntry ==
    /\ (Returned /\ alg = "greedy" /\ inst = Scenario) =>
          /\ Entries = << Schedule(1, 11, 0, 30, 10, 11) >>
          /\ result.total_score = 10
    /\ (Returned /\ alg = "greedy" /\ inst.max_consecutive_genre = 2) =>
          \A i \in 1..(Len(Entries) - 1) :
              EntryGenre(inst, Entries[i]) # EntryGenre(inst, Entries[i + 1])

\* Greedy has returned on the boundary scenario
C8_Witness == Returned /\ alg = "greedy" /\ inst = Scenario /\ Entries # <<>>

\* a Greedy decision point of C9: the schedule is not empty, there are no
\* time preferences and no termination penalty, and both the channel of the
\* last entry (index c) and another channel (index o) are valid and airing
Competing(c, o) ==
    /\ alg = "greedy" /\ pc = "run" /\ time < inst.closing_time
    /\ solution # <<>>
    /\ inst.time_preferences = <<>> /\ inst.termination_penalty = 0
    /\ c \in 1..Len(inst.channels) /\ o \in 1..Len(inst.channels) /\ c # o
    /\ inst.channels[c].channel_id = Last(solution).channel_id
    /\ \A x \in {c, o} :
          /\ is_channel_valid(solution, inst, x, time)
          /\ get_channel_program_by_time(inst.channels[x], time) # NoProgram

\* the channel get_best_fit picks at the current decision point
Picked ==
    get_best_fit(solution, inst, time, get_valid_schedules(solution, inst, time))[1].channel_id

ScoreAt(x) == get_channel_program_by_time(inst.channels[x], time).score

\* C9 (as claimed): the other channel is selected only if s_other >
\* s_cur + switch_penalty, and the current channel is continued whenever
\* s_other <= s_cur + switch_penalty, whatever the order of the channels.
C9_SwitchOnlyIfStrictlyBetter ==
    \A c \in 1..2 : \A o \in 1..2 :
        Competing(c, o) =>
            /\ Picked = inst.channels[o].channel_id
                  => ScoreAt(o) > ScoreAt(c) + inst.switch_penalty
            /\ ScoreAt(o) <= ScoreAt(c) + inst.switch_penalty
                  => Picked = inst.channels[c].channel_id

\* C9 (amended): the other channel is selected only if s_other >= s_cur +
\* switch_penalty, with equality only when the other channel comes first in
\* the instance; the current channel is kept when s_other < s_cur +
\* switch_penalty, or on equality when the current channel comes first.
C9_SwitchTieGoesToFirstChannel ==
    \A c \in 1..2 : \A o \in 1..2 :
        Competing(c, o) =>
            /\ Picked = inst.channels[o].channel_id
                  => \/ ScoreAt(o) > ScoreAt(c) + inst.switch_penalty
                     \/ (ScoreAt(o) = ScoreAt(c) + inst.switch_penalty /\ o < c)
            /\ (\/ ScoreAt(o) < ScoreAt(c) + inst.switch_penalty
                \/ (ScoreAt(o) = ScoreAt(c) + inst.switch_penalty /\ c < o))
                  => Picked = inst.channels[c].channel_id

\* a tie under a positive switch penalty, the other channel first: it is picked
C9_Witness ==
    /\ Competing(2, 1) /\ inst.switch_penalty = 1
    /\ ScoreAt(1) = ScoreAt(2) + inst.switch_penalty
    /\ Picked = inst.channels[1].channel_id

Validated == alg = "validator" /\ pc = "done"

\* C11: is_channel_valid returns false for every time before opening_time
\* and every time with time + min_duration after closing_time, whatever the
\* partial schedule and the channel.
C11_InvalidOutsideWindow ==
    (Validated /\ (time < inst.opening_time
                   \/ time + inst.min_duration > inst.closing_time))
        => ~ result.valid

\* a call at a time inside the window, fewer than min_duration minutes
\* before closing, that meets the three other rules
C11_Witness ==
    /\ Validated /\ ~ result.valid
    /\ inst.opening_time <= time /\ time < inst.closing_time
    /\ time + inst.min_duration > inst.closing_time
    /\ validate_min_duration(solution, inst, time)
    /\ validate_max_consecutive_genre(solution, inst, result.channel_index, time)
    /\ validate_priority_time_block(inst, result.channel_index, time)

\* C12: is_channel_valid returns false whenever the partial schedule has a
\* last entry and time < last entry's start + min_duration; on the empty
\* partial schedule the dwell rule restricts nothing: the call is valid
\* exactly when the window rule and the priority-block rule allow it.
C12_DwellFloorOnLastStart ==
    Validated =>
        /\ (solution # <<>> /\ time < Last(solution).start + inst.min_duration)
              => ~ result.valid
        /\ solution = <<>>
              => (result.valid <=>
                    /\ validate_schedule_time(inst, time)
                    /\ validate_priority_time_block(inst, result.channel_index, time))

\* a call rejected by the dwell floor alone
C12_Witness ==
    /\ Validated /\ ~ result.valid
    /\ solution # <<>> /\ time < Last(solution).start + inst.min_duration
    /\ validate_schedule_time(inst, time)
    /\ validate_max_consecutive_genre(solution, inst, result.channel_index, time)
    /\ validate_priority_time_block(inst, result.channel_index, time)

\* the number of trailing entries of s whose programme has the genre g
RECURSIVE TrailingRun(_, _, _)
TrailingRun(I, s, g) ==
    IF s = <<>> \/ EntryGenre(I, Last(s)) # g THEN 0
    ELSE 1 + TrailingRun(I, SubSeq(s, 1, Len(s) - 1), g)

\* the programme airing on the channel of the call at the time of the call
Candidate == get_channel_program_by_time(inst.channels[result.channel_index], time)

\* C13: with run the number of trailing entries of the partial schedule
\* whose genre is the genre of the programme airing on the channel at the
\* candidate time (0 on the empty partial schedule), is_channel_valid rejects
\* whenever run + 1 >= max_consecutive_genre, and the genre rule rejects
\* nothing when run + 1 < max_consecutive_genre.
C13_GenreRuleCountsFromZero ==
    (Validated /\ Candidate # NoProgram) =>
        /\ TrailingRun(inst, solution, Candidate.genre) + 1 >= inst.max_consecutive_genre
              => ~ result.valid
        /\ TrailingRun(inst, solution, Candidate.genre) + 1 < inst.max_consecutive_genre
              => (result.valid <=>
                    /\ validate_schedule_time(inst, time)
                    /\ validate_min_duration(solution, inst, time)
                    /\ validate_priority_time_block(inst, result.channel_index, time))

\* a priority block that contains t, or begins strictly between t and
\* t + min_duration, and does not allow the channel of the call
BlockExcludes(block) ==
    /\ \/ (block.start <= time /\ time < block.end)
       \/ (time < block.start /\ block.start < time + inst.min_duration)
    /\ inst.channels[result.channel_index].channel_id \notin block.allowed_channels

\* C14: when the window rule, the dwell rule and the genre rule pass,
\* is_channel_valid rejects the channel if and only if some priority block
\* contains t, or begins strictly between t and t + min_duration, and does
\* not allow the channel.
C14_PriorityBlockRule ==
    (/\ Validated
     /\ validate_schedule_time(inst, time)
     /\ validate_min_duration(solution, inst, time)
     /\ validate_max_consecutive_genre(solution, inst, result.channel_index, time))
        => (~ result.valid <=>
              \E b \in 1..Len(inst.priority_blocks) : BlockExcludes(inst.priority_blocks[b]))

\* a call rejected by a block that begins after t, within min_duration
C14_Witness ==
    /\ Validated /\ ~ result.valid
    /\ validate_schedule_time(inst, time)
    /\ validate_min_duration(solution, inst, time)
    /\ validate_max_consecutive_genre(solution, inst, result.channel_index, time)
    /\ \E b \in 1..Len(inst.priority_blocks) :
          /\ BlockExcludes(inst.priority_blocks[b])
          /\ time < inst.priority_blocks[b].start

\* C15: _backtrack_improve returns the schedule and the score it was given,
\* or a regrown schedule whose full-schedule score it returns and which is
\* strictly greater than the score it was given; never a lower score.
C15_BacktrackNeverLowers ==
    (Returned /\ alg = "beam") =>
        \/ (Entries = solution /\ result.total_score = total_score)
        \/ /\ result.total_score > total_score
           /\ result.total_score = score_full_schedule(inst, Entries)

\* _backtrack_improve has returned a regrown schedule
C15_Witness ==
    /\ Returned /\ alg = "beam" /\ bs.backtrack_window > 0 /\ solution # <<>>
    /\ Entries # solution /\ result.total_score > total_score

\* C16: _apply_local_search returns a Solution whose total_score is at
\* least that of the Solution it was given, whatever number of passes ran, and
\* _local_search_replace and _local_search_swap each return a score at least
\* the full-schedule score of the schedule passed to them.
C16_LocalSearchNeverLowers ==
    alg = "local_search" =>
        /\ total_score >= dyn.best_solution.total_score
        /\ pc = "done" => /\ result.total_score >= dyn.best_solution.total_score
                          /\ result = apply_local_search(inst, dyn, dyn.best_solution)
        /\ dyn.called # "none" =>
              dyn.cand_score >= dyn_score_full_schedule(inst, dyn.sched)

\* _apply_local_search has returned a schedule that a replace pass improved
C16_Witness ==
    /\ alg = "local_search" /\ pc = "done"
    /\ result.total_score > dyn.best_solution.total_score
    /\ result.scheduled_programs # dyn.best_solution.scheduled_programs

\* C17: for every Solution that generate_solution_with_time of
\* BeyondDynamicBeamSearchSchedulerAdvanced returns, _score_full_schedule of
\* that class, run on the returned schedule, gives the Solution's total_score.
C17_RescoringReproduces ==
    (Returned /\ alg = "beyond") =>
        dyn_score_full_schedule(inst, Entries) = result.total_score

NoAdjacentDuplicate(s) ==
    \A i \in 1..(Len(s) - 1) : s[i].unique_program_id # s[i + 1].unique_program_id

\* C18: in every partial schedule of _beam_search and _backtrack_improve, and
\* in the schedule BeamSearchScheduler returns, no two adjacent entries carry
\* the same unique_program_id.
C18_NoAdjacentDuplicate ==
    alg = "beam" =>
        /\ \A i \in 1..Len(beam) : NoAdjacentDuplicate(beam[i].sol)
        /\ \A i \in 1..Len(bt_nodes) : NoAdjacentDuplicate(bt_nodes[i].sol)
        /\ NoAdjacentDuplicate(solution)
        /\ NoAdjacentDuplicate(Entries)

\* the interesting times of the built scheduler that lie strictly after m
LaterTimes(m) ==
    { result.interesting_times[j] : j \in { k \in 1..Len(result.interesting_times) :
                                              result.interesting_times[k] > m } }

\* C19: in the skip table of BeamSearchScheduler and of
\* BeamSearchSchedulerAdvanced, for every minute m of [opening_time,
\* closing_time), skip(m) is the smaller of jump_cap and the distance to the
\* next interesting time after m (closing_time - m when none follows), and on
\* every channel the programme airing at each minute of [m, m + skip(m)) is
\* the programme airing at m.
C19_SkipTable ==
    pc = "built" =>
        \A m \in inst.opening_time..(inst.closing_time - 1) :
            /\ result.skip_table[m] =
                  Min2(bs.jump_cap,
                       IF LaterTimes(m) = {} THEN inst.closing_time - m
                       ELSE (CHOOSE x \in LaterTimes(m) : \A y \in LaterTimes(m) : x <= y) - m)
            /\ \A n \in m..(m + result.skip_table[m] - 1) :
                  \A c \in 1..Len(inst.channels) :
                      get_channel_program_by_time(inst.channels[c], n)
                      = get_channel_program_by_time(inst.channels[c], m)

\* a table with an entry that jump_cap cuts short of the next interesting
\* time, and that skips two minutes or more
C19_Witness ==
    /\ pc = "built"
    /\ \E m \in inst.opening_time..(inst.closing_time - 1) :
          /\ result.skip_table[m] >= 2
          /\ LaterTimes(m) # {}
          /\ \A x \in LaterTimes(m) : x - m > bs.jump_cap
          /\ \E c \in 1..Len(inst.channels) :
                get_channel_program_by_time(inst.channels[c], m) # NoProgram

\* C20: when the beam-search core of a restart of
\* BeamSearchSchedulerAdvanced.generate_solution raises, the restart is
\* skipped: the call still runs every restart and returns a Solution, it does
\* not end with the exception.
C20_RaisingRestartSkipped ==
    (alg = "advanced" /\ pc = "done") =>
        (~ result.raised /\ adv.restart > bs.restarts)

\* every restart pass and every deepening run of this call raises
AllRunsRaise ==
    /\ 0..(dyn.restarts - 1) \subseteq dyn.raising.restarts
    /\ 2..dyn.max_beam_multiplier \subseteq dyn.raising.deepen

C22_NoSearchAfterDeadline ==
    (alg = "beyond" /\ pc \in {"restart", "deepening", "refill", "probing"})
        => ~ dyn.expired

\* C23: generate_solution_with_time of
\* BeyondDynamicBeamSearchSchedulerAdvanced leaves beam_width, jump_cap and
\* _prev_restart_best of the object as they were before the call, and a second
\* call with the same argument returns the total_score of the first.
C23_StatelessBetweenCalls ==
    (alg = "beyond" /\ pc = "done") =>
        /\ dyn.beam_width = dyn.before.beam_width
        /\ dyn.jump_cap = dyn.before.jump_cap
        /\ dyn.prev_is_none = dyn.before.prev_is_none
        /\ dyn.prev_restart_best = dyn.before.prev_restart_best
        /\ dyn.call = 2 => result.total_score = dyn.first.total_score

\* the object the constructor built
Constructed == IF alg = "beyond" THEN dyn ELSE bs

\* C24 as claimed: a constructor of BeamSearchScheduler,
\* BeamSearchSchedulerAdvanced or BeyondDynamicBeamSearchSchedulerAdvanced
\* called with beam_width <= 0, jump_cap <= 0 or a negative backtrack_window
\* stores 1 for each offending parameter.
C24_DegenerateStoredAsOne ==
    pc = "constructed" =>
        /\ adv.beam_width <= 0 => Constructed.beam_width = 1
        /\ adv.jump_cap <= 0 => Constructed.jump_cap = 1
        /\ adv.backtrack_window < 0 => Constructed.backtrack_window = 1

\* C24: the three constructors never fail on beam_width <= 0, jump_cap <= 0
\* or a negative backtrack_window; an offending beam_width or jump_cap is
\* stored as 1, a negative backtrack_window as 1 by
\* BeamSearchSchedulerAdvanced and as 0 by BeamSearchScheduler and
\* BeyondDynamicBeamSearchSchedulerAdvanced; the other parameters are stored
\* as given.
C24_DegenerateStoredAsMinimum ==
    pc = "constructed" =>
        /\ Constructed.beam_width = (IF adv.beam_width <= 0 THEN 1 ELSE adv.beam_width)
        /\ Constructed.jump_cap = (IF adv.jump_cap <= 0 THEN 1 ELSE adv.jump_cap)
        /\ Constructed.backtrack_window =
              (IF alg = "advanced"
               THEN (IF adv.backtrack_window <= 0 THEN 1 ELSE adv.backtrack_window)
               ELSE (IF adv.backtrack_window < 0 THEN 0 ELSE adv.backtrack_window))

\* BeamSearchScheduler built from three offending arguments
C24_Witness ==
    /\ pc = "constructed" /\ alg = "beam"
    /\ adv.beam_width < 0 /\ adv.jump_cap = 0 /\ adv.backtrack_window < 0
    /\ bs = [beam_width |-> 1, jump_cap |-> 1, backtrack_window |-> 0]

\* C25: compute_upper_bound() of UpperBoundGreedy is at least the total_score
\* of the Solution GreedyScheduler.generate_solution returns, also when one
\* preference's bonus is earned by several scheduled programmes.
C25_UpperBoundHolds ==
    (alg = "greedy" /\ pc = "done") =>
        compute_upper_bound(inst) >= result.total_score

RECURSIVE OverlappingBonuses(_, _, _, _, _)
OverlappingBonuses(I, genre, start, end, n) ==
    IF n = 0 THEN 0
    ELSE OverlappingBonuses(I, genre, start, end, n - 1)
         + (IF /\ I.time_preferences[n].preferred_genre = genre
               /\ start < I.time_preferences[n].end
               /\ end > I.time_preferences[n].start
            THEN I.time_preferences[n].bonus ELSE 0)

\* C27: the fitness of every entry of GreedyScheduler is the programme's
\* score, plus the bonus of every time preference of its genre that overlaps
\* its interval, minus switch_penalty iff a previous entry exists on another
\* channel, minus termination_penalty iff a previous entry exists for another
\* programme and the new programme starts before that entry's end; no delay
\* penalty, and no penalty on the first entry.
C27_GreedyFitness ==
    alg = "greedy" =>
        \A i \in 1..Len(solution) :
            LET e == solution[i]
                p == get_program_by_unique_id(inst, e.unique_program_id)
            IN  e.fitness =
                    p.score
                    + OverlappingBonuses(inst, p.genre, p.start, p.end,
                                         Len(inst.time_preferences))
                    - (IF i > 1 /\ solution[i - 1].channel_id # e.channel_id
                       THEN inst.switch_penalty ELSE 0)
                    - (IF /\ i > 1
                          /\ solution[i - 1].unique_program_id # p.unique_id
                          /\ p.start < solution[i - 1].end
                       THEN inst.termination_penalty ELSE 0)

\* a second entry that paid the switch penalty and earned a bonus
C27_Witness ==
    /\ alg = "greedy" /\ Len(solution) >= 2
    /\ inst.switch_penalty > 0
    /\ solution[2].channel_id # solution[1].channel_id
    /\ LET p == get_program_by_unique_id(inst, solution[2].unique_program_id)
       IN  /\ OverlappingBonuses(inst, p.genre, p.start, p.end,
                                 Len(inst.time_preferences)) > 0
           /\ solution[2].fitness = p.score

\* the entry at position i of sched cuts the previous entry's programme
\* short: another programme, starting before that programme's natural end
CutsPrevious(I, sched, i) ==
    /\ i > 1
    /\ sched[i].unique_program_id # sched[i - 1].unique_program_id
    /\ sched[i].start < get_program_by_unique_id(I, sched[i - 1].unique_program_id).end

\* the fitness of entry i when termination_penalty is charged iff it cuts
\* the previous programme short
FitnessAsClaimed(I, sched, i) ==
    LET p == get_program_by_unique_id(I, sched[i].unique_program_id)
    IN  p.score
        + OverlappingBonuses(I, p.genre, sched[i].start, sched[i].end,
                             Len(I.time_preferences))
        - (IF i > 1 /\ sched[i - 1].channel_id # sched[i].channel_id
           THEN I.switch_penalty ELSE 0)
        - (IF CutsPrevious(I, sched, i) THEN I.termination_penalty ELSE 0)

\* C28: in BeamSearchScheduler, termination_penalty is subtracted from the
\* fitness of a successor entry exactly when the entry is for another
\* programme than the previous entry and starts before the natural end of the
\* previous entry's programme.
C28_TerminationPenaltyCharged ==
    (alg = "beam" /\ pc = "search") =>
        \A k \in 1..Len(beam) : \A i \in 1..Len(beam[k].sol) :
            beam[k].sol[i].fitness = FitnessAsClaimed(inst, beam[k].sol, i)

\* how many positions of q hold x
CountOf(q, x) == Cardinality({ k \in 1..Len(q) : q[k] = x })

\* `kept` is what pruning to `width` may keep of `cands`: at most width of
\* the candidates, as many as there are up to width, and every candidate
\* that scores strictly more than a kept one is kept too
KeptBest(cands, kept, width) ==
    /\ Len(kept) <= width
    /\ Len(kept) = Min2(width, Len(cands))
    /\ \A k \in 1..Len(kept) : CountOf(kept, kept[k]) <= CountOf(cands, kept[k])
    /\ \A k \in 1..Len(kept) :
          Cardinality({ c \in 1..Len(cands) : cands[c].score > kept[k].score })
          = Cardinality({ j \in 1..Len(kept) : kept[j].score > kept[k].score })

\* C29: in _beam_search and in _beam_search_core the beam holds at most
\* beam_width states at the start of every step (the width the method runs
\* with: self.beam_width, and the beam_width argument of _beam_search_core),
\* and the states a step keeps are the highest-scoring successors: no
\* dropped successor scores strictly more than a kept one.
C29_BeamKeepsBest ==
    [][ /\ (alg = "beam" /\ pc = "search") =>
              /\ Len(beam) <= bs.beam_width
              /\ pc' = "search" =>
                    KeptBest(BeamCandidates(inst, bs, beam), beam', bs.beam_width)
        /\ (alg = "advanced" /\ pc = "core") =>
              /\ Len(beam) <= adv.adaptive_beam
              /\ pc' = "core" =>
                    \E orders \in IF bs.validate_constraints
                                  THEN {IdentityOrders(inst, beam)}
                                  ELSE [1..Len(beam) -> ChannelOrders(inst)] :
                       KeptBest(AdvancedCandidates(inst, bs, beam, adv.adaptive_jump, orders),
                                beam', adv.adaptive_beam) ]_vars

\* a full beam of two states or more whose successors outnumber the width
\* and do not all score the same
C29_Witness ==
    /\ alg = "beam" /\ pc = "search"
    /\ bs.beam_width >= 2 /\ Len(beam) = bs.beam_width
    /\ LET cands == BeamCandidates(inst, bs, beam)
       IN  /\ Len(cands) > bs.beam_width
           /\ \E a \in 1..Len(cands) : \E b \in 1..Len(cands) :
                 cands[a].score < cands[b].score

\* channel ch_idx offers state st no segment to append: nothing airs, or the
\* programme is the one just scheduled and still running, or every segment
\* option is empty or starts before the last entry's end
NoSegmentOn(I, st, ch_idx) ==
    LET prog == get_channel_program_by_time(I.channels[ch_idx], st.time)
    IN  \/ prog = NoProgram
        \/ /\ st.sol # <<>>
           /\ Last(st.sol).unique_program_id = prog.unique_id
           /\ st.time < Last(st.sol).end
        \/ \A j \in 1..Len(segment_options(I, st.time, prog)) :
              LET sg == segment_options(I, st.time, prog)[j]
              IN  \/ ~ (sg[1] < sg[2])
                  \/ (st.sol # <<>> /\ sg[1] < Last(st.sol).end)

\* st has no valid channel, or none of its valid channels offers a segment
NothingToAppend(I, st) ==
    LET valid == get_valid_schedules(st.sol, I, st.time)
    IN  \A k \in 1..Len(valid) : NoSegmentOn(I, st, valid[k])

\* C30: in _beam_search a state with time < closing_time that has no valid
\* channel, or whose valid channels yield no admissible segment, contributes
\* exactly one successor, with the same score and partial schedule and time
\* min(time + skip_table[time], closing_time), and that successor is among
\* the candidates that reach pruning.
C30_SkipSuccessor ==
    (alg = "beam" /\ pc = "search") =>
        \A k \in 1..Len(beam) :
            (beam[k].time < inst.closing_time /\ NothingToAppend(inst, beam[k])) =>
                LET skip_table == build_skip_table(inst, bs.jump_cap)
                    moved == Node(beam[k].score,
                                  Min2(beam[k].time + skip_table[beam[k].time],
                                       inst.closing_time),
                                  beam[k].sol)
                IN  /\ beam[k].time \in DOMAIN skip_table
                    /\ ExpandState(inst, bs, beam[k]) = << moved >>
                    /\ CountOf(BeamCandidates(inst, bs, beam), moved) >= 1

\* the beam holds a state with an entry and a valid channel, none of whose
\* segments it can append, and the table moves it two minutes or more
C30_Witness ==
    /\ alg = "beam" /\ pc = "search"
    /\ \E k \in 1..Len(beam) :
          /\ beam[k].time < inst.closing_time
          /\ beam[k].sol # <<>>
          /\ get_valid_schedules(beam[k].sol, inst, beam[k].time) # <<>>
          /\ NothingToAppend(inst, beam[k])
          /\ build_skip_table(inst, bs.jump_cap)[beam[k].time] >= 2

\* what _beam_search goes on to return from the beam and best it holds
ReturnedFrom(I, self, states, best) ==
    BeamSearchLoop(I, self, BeamIteration(I, self, states, best))

\* C31: _beam_search returns a completed state whose score is at least the
\* score of every state that reached closing_time at any step, the completed
\* successors that pruning dropped included; ([], 0) only if none completed.
C31_BestCompletedReturned ==
    (alg = "beam" /\ pc = "search") =>
        LET cands == BeamCandidates(inst, bs, beam)
            final == ReturnedFrom(inst, bs, beam, best_state)
        IN  /\ \A k \in 1..Len(beam) :
                  beam[k].time >= inst.closing_time => final.score >= beam[k].score
            /\ \A c \in 1..Len(cands) :
                  cands[c].time >= inst.closing_time => final.score >= cands[c].score

\* the Greedy pass at `time` either moves one minute on or commits a
\* programme that ends after `time`
GreedyAdvances ==
    LET valid == get_valid_schedules(solution, inst, time)
        best  == get_best_fit(solution, inst, time, valid)
    IN  (valid # <<>> /\ ~ GreedyRejects(inst, solution, best[1], best[2], best[3]))
            => best[2].end > time

\* every successor of every state of the beam that has not completed is
\* later than the state, and the table moves such a state by a minute or more
BeamAdvances ==
    \A k \in 1..Len(beam) :
        beam[k].time < inst.closing_time =>
            /\ SkipGet(inst, bs, beam[k].time) >= 1
            /\ \A s \in 1..Len(ExpandState(inst, bs, beam[k])) :
                  ExpandState(inst, bs, beam[k])[s].time > beam[k].time

\* C32: on instances with opening_time <= closing_time and min_duration >= 1
\* GreedyScheduler.generate_solution and _beam_search terminate: every
\* iteration moves the time of the Greedy pass, and of every beam state that
\* has not completed, strictly forward.
C32_LoopsTerminate ==
    /\ [](/\ (alg = "greedy" /\ pc = "run" /\ time < inst.closing_time) => GreedyAdvances
          /\ (alg = "beam" /\ pc = "search") => BeamAdvances)
    /\ <>(pc = "done")

\* a beam state that a skip of two minutes or more moves on
C32_Witness ==
    /\ alg = "beam" /\ pc = "search"
    /\ \E k \in 1..Len(beam) :
          /\ beam[k].time < inst.closing_time
          /\ beam[k].sol # <<>>
          /\ ExpandState(inst, bs, beam[k]) = << SkipNode(inst, bs, beam[k]) >>
          /\ SkipGet(inst, bs, beam[k].time) >= 2

\* no entry starts before the entry before it ends
PairwiseNoOverlap(s) == \A i \in 1..(Len(s) - 1) : s[i].end <= s[i + 1].start

\* C33: given a sorted, pairwise non-overlapping schedule,
\* _local_search_replace returns a schedule that is pairwise non-overlapping.
C33_ReplaceKeepsNoOverlap ==
    (alg = "refine" /\ pc = "returned" /\ adv.method = "_local_search_replace"
     /\ SortedNoOverlap(solution))
        => PairwiseNoOverlap(result.scheduled_programs)

\* C34: every schedule BeyondDynamicBeamSearchSchedulerAdvanced returns from
\* generate_solution_with_time has no run of consecutive same-genre entries
\* of length max_consecutive_genre or more: _respects_genre_limit enforces
\* the limit of the Validator's rule run + 1 >= max_consecutive_genre.
C34_BeyondRunsBelowLimit ==
    (Returned /\ alg = "local_search") => RunsBelowLimit(inst, Entries)

RECURSIVE MaxOf(_)
MaxOf(q) == IF Len(q) = 1 THEN q[1] ELSE Max2(q[Len(q)], MaxOf(SubSeq(q, 1, Len(q) - 1)))

\* the restart that just ran was accepted, and its score exceeds the best
\* score of all restarts before it by more than stagnation_delta
RestartImproved ==
    /\ alg = "beyond" /\ pc = "restarts"
    /\ dyn.best_score_history # <<>>
    /\ Len(dyn'.best_score_history) = Len(dyn.best_score_history) + 1
    /\ 2 * dyn'.best_score_history[Len(dyn'.best_score_history)]
          > 2 * MaxOf(dyn.best_score_history) + dyn.stagnation_delta2

\* C35: in the restart loop the width for the next restart is not larger
\* than the current width when the restart's score exceeds the best score of
\* all previous restarts by more than stagnation_delta; the width grows only
\* when the score fails to improve by that much.
C35_WideningOnlyOnStagnation ==
    [][RestartImproved => dyn'.current_dynamic_width <= dyn.current_dynamic_width]_vars

\* C36: every BeamSearchScheduler the restart loop and the iterative
\* deepening create has a beam width of at most the constructor's
\* beam_width times max_beam_multiplier.
C36_WidthWithinMultiplier ==
    /\ (alg = "beyond" /\ pc = "restarts" /\ dyn.r < dyn.restarts)
          => create_scheduler(dyn, Max2(1, dyn.current_dynamic_width)).beam_width
                 <= dyn.constructed * dyn.max_beam_multiplier
    /\ (alg = "beyond" /\ pc = "deepen" /\ DeepenMore)
          => create_scheduler(dyn, Max2(1, dyn.beam_width * dyn.mult)).beam_width
                 <= dyn.constructed * dyn.max_beam_multiplier

\* C37: during _backtrack_improve, after every pass of the depth loop the
\* number of live nodes is at most beam_width.
C37_BacktrackNodesWithinBeam ==
    (alg = "beam" /\ pc = "backtrack") => Len(bt_nodes) <= bs.beam_width

RECURSIVE SumFitness(_)
SumFitness(s) == IF s = <<>> THEN 0 ELSE SumFitness(SubSeq(s, 1, Len(s) - 1)) + s[Len(s)].fitness

\* C38: the total_score of every Solution that GreedyScheduler and
\* BeamSearchScheduler return, with or without an accepted backtrack
\* improvement, is the sum of the fitness of the returned entries.
C38_TotalIsFitnessSum ==
    (Returned /\ alg \in {"greedy", "beam"}) => result.total_score = SumFitness(Entries)

\* a returned schedule of several entries that the backtracking regrew
C38_Witness ==
    /\ Returned /\ alg = "beam" /\ bs.backtrack_window > 0
    /\ Entries # solution /\ Len(Entries) >= 2
    /\ result.total_score = SumFitness(Entries)

\* C39: _local_search_swap can accept a swap on a valid schedule: there is a
\* sorted, pairwise non-overlapping schedule of positive-length entries that
\* the swap pass does not return unchanged.
C39_SwapCanAccept ==
    alg = "refine" =>
        \E I \in LocalSearchInstances : \E sched \in SwapInputs(I) :
            local_search_swap(I, sched).sched # sched

====
